---- MODULE Spec2Model ----
(***************************************************************************)
(* Broadway fashion bot: the websocket receive loop of main.py, the        *)
(* ChatSession / FashionWorkflow state graph of fashion_graph.py and the   *)
(* ConversationService of conversationService.py, for one client id.       *)
(*                                                                         *)
(* Strings that the program only stores and forwards (summaries, dialogue  *)
(* texts) are tags.  A raw classifier reply is a sequence of tokens, so    *)
(* that find('{'), rfind('}'), the slice and json.loads are computed.      *)
(* External calls (the language model, the catalogue) are inputs: each     *)
(* either raises or returns one value of a small set.                      *)
(***************************************************************************)
EXTENDS Integers, Sequences, FiniteSets, TLC

(***************************************************************************)
(* Bounds of the model.                                                    *)
(***************************************************************************)
\* workflow invocations explored on one server run
MaxTurns == 2
\* tokens in a raw classifier reply
MaxRawLen == 4
\* style attributes one follow-up form submission fills
MaxStyleAnswers == 2
\* products a catalogue search returns
MaxProducts == 1
\* locations the vacation service returns
MaxLocations == 2
\* products in the list a handler leaves for the response builder
MaxRecs == 8
\* ChatSession objects created in a run
MaxObjects == 2
\* words in the user input of a parameter extraction
MaxWords == 2
\* subcategories in one request for complements
MaxSubcategories == 2
\* bot messages sent with show_feedback in one session
MaxRated == 4
\* turns started by the connection tasks in a run
MaxTaskTurns == 2

(***************************************************************************)
(* Python values.                                                          *)
(***************************************************************************)
\* Python's None where a string is expected
PyNone == "<None>"

\* bool(x) of a string or None
Truthy(s) == s # PyNone /\ s # ""

\* a Python list of products / a str / a dict held in state["recommendations"]
PyList(items) == [kind |-> "list", items |-> items]
PyStr == [kind |-> "str", items |-> <<>>]
PyDict == [kind |-> "dict", items |-> <<>>]

\* bool(x) of state["recommendations"]: an empty list is falsy, the two-key
\* dict and the non-empty str the vacation handler can store are truthy
TruthyRecs(r) == IF r.kind = "list" THEN r.items # <<>> ELSE TRUE

\* str.lower() on the strings the program lowers
lower(s) ==
    CASE s = "Male" -> "male"
      [] s = "Female" -> "female"
      [] s = "Unisex" -> "unisex"
      [] s = "Not_Needed" -> "not_needed"
      [] s = "None" -> "none"
      [] s = "Non-binary" -> "non-binary"
      [] s = "Prefer not to say" -> "prefer not to say"
      [] s = "Occasion" -> "occasion"
      [] s = "Pairing" -> "pairing"
      [] s = "Vacation" -> "vacation"
      [] s = "SuitMe" -> "suitme"
      [] s = "Styling" -> "styling"
      [] s = "General" -> "general"
      [] s = "MENU" -> "menu"
      [] s = "Start Over" -> "start over"
      [] s = "Wedding" -> "wedding"
      [] OTHER -> s

\* str.strip() on the strings the program strips
strip(s) ==
    CASE s = "Female\n" -> "Female"
      [] s = " hello " -> "hello"
      [] s = "  " -> ""
      [] OTHER -> s

(***************************************************************************)
(* Raw replies of the language model.                                      *)
(*                                                                         *)
(* A classifier reply is a sequence of tokens: "{" and "}" are the braces, *)
(* "r" is a "reasoning": "..." member, "i" an "intent": <label> member,    *)
(* " " is whitespace and "w" any other text.  Every "i" member of one      *)
(* reply carries the reply's label.                                        *)
(***************************************************************************)
Tokens == {"{", "}", "r", "i", " ", "w"}

\* the labels of the classifier prompt (conversationService.py, INTENT
\* HIERARCHY: SuitMe, Pairing, Occasion, Vacation, General) and the label
\* the state graph routes on for the styling intent
IntentLabels == {"SuitMe", "Pairing", "Occasion", "Vacation", "General", "Styling"}

SeqsUpTo(S, n) == UNION {[1..k -> S] : k \in 0..n}

ClassifierReplies == [tokens : SeqsUpTo(Tokens, MaxRawLen), label : IntentLabels]

\* str.strip() of a token sequence
RECURSIVE lstrip(_)
lstrip(t) == IF t # <<>> /\ Head(t) = " " THEN lstrip(Tail(t)) ELSE t

RECURSIVE rstrip(_)
rstrip(t) ==
    IF t # <<>> /\ t[Len(t)] = " " THEN rstrip(SubSeq(t, 1, Len(t) - 1)) ELSE t

strip_tokens(t) == rstrip(lstrip(t))

\* str.find / str.rfind: 0-based index of the first / last occurrence, or -1
find(t, c) ==
    IF \E k \in 1..Len(t) : t[k] = c
    THEN (CHOOSE k \in 1..Len(t) : t[k] = c /\ \A j \in 1..(k - 1) : t[j] # c) - 1
    ELSE -1

rfind(t, c) ==
    IF \E k \in 1..Len(t) : t[k] = c
    THEN (CHOOSE k \in 1..Len(t) : t[k] = c /\ \A j \in (k + 1)..Len(t) : t[j] # c) - 1
    ELSE -1

\* the Python slice t[a:b] for 0 <= a, 0 <= b
slice(t, a, b) == SubSeq(t, a + 1, IF b > Len(t) THEN Len(t) ELSE b)

\* json.loads of a slice: an object is "{", members, "}", whitespace
\* between tokens being insignificant; anything else is a JSONDecodeError.
\* The result names the keys of the parsed object.
json_loads(t) ==
    LET body == SelectSeq(t, LAMBDA c : c # " ")
        n == Len(body)
    IN  IF /\ n >= 2
           /\ body[1] = "{"
           /\ body[n] = "}"
           /\ \A k \in 2..(n - 1) : body[k] \in {"r", "i"}
        THEN [ok |-> TRUE,
              keys |-> {IF body[k] = "r" THEN "reasoning" ELSE "intent" :
                            k \in 2..(n - 1)}]
        ELSE [ok |-> FALSE, keys |-> {}]

(***************************************************************************)
(* ConversationService (conversationService.py).                           *)
(***************************************************************************)
\* what a summarisation call can do: raise inside _call_ai, or return the
\* text the model wrote for that prompt (possibly none)
UserFoldReplies ==
    {[raised |-> TRUE, content |-> ""]}
        \cup {[raised |-> FALSE, content |-> c] : c \in {"", "user_turn_summary"}}
BotFoldReplies ==
    {[raised |-> TRUE, content |-> ""]}
        \cup {[raised |-> FALSE, content |-> c] : c \in {"", "bot_turn_summary"}}

\* ConversationService._call_ai for a text reply: the except branch returns ""
call_ai(reply) == IF reply.raised THEN "" ELSE reply.content

\* ConversationService.__init__
ConversationServiceInit ==
    [conversation_context |-> "", intent |-> "general", recs |-> PyList(<<>>)]

\* the value returned by a call that returned, or the fact that it raised
Return(v) == [raised |-> FALSE, value |-> v]
Raise(e) == [raised |-> TRUE, value |-> e]

\* ConversationService.understandIntent on the text _call_ai returned
understandIntent(reply) ==
    LET response == strip_tokens(reply.tokens)
        start_idx == find(response, "{")
        end_idx == rfind(response, "}") + 1
    IN  IF start_idx # -1 /\ end_idx # 0
        THEN LET json_content == json_loads(slice(response, start_idx, end_idx))
             IN  IF ~json_content.ok THEN Raise("JSONDecodeError")
                 ELSE IF "reasoning" \notin json_content.keys THEN Raise("KeyError")
                 ELSE IF "intent" \notin json_content.keys THEN Raise("KeyError")
                 ELSE Return(reply.label)
        ELSE Return("General")

\* the shape of a raw classifier reply
RawClass(reply) ==
    LET response == strip_tokens(reply.tokens)
        first == find(response, "{")
        last == rfind(response, "}")
    IN  IF first = -1 /\ last = -1 THEN "no_braces"
        ELSE LET js == json_loads(slice(response, IF first = -1 THEN 0 ELSE first, last + 1))
             IN  IF first = -1 \/ last = -1 \/ ~js.ok THEN "malformed"
                 ELSE IF {"reasoning", "intent"} \subseteq js.keys THEN "well_formed"
                 ELSE "missing_key"

\* everything the classifier call of one turn can do; a call that fails
\* inside _call_ai yields the empty reply
UnderstandIntentOutcomes == {understandIntent(r) : r \in ClassifierReplies}

\* ConversationService.addToConversation: the prompt is built from the stored
\* context and the reply of _call_ai is returned as it is
addToConversation(cs, reply) == call_ai(reply)

\* ConversationService.processTurn up to its second model call: the text
\* addToConversation returned is stored as the context
processTurn_fold(cs, reply) ==
    [cs EXCEPT !.conversation_context = addToConversation(cs, reply)]

\* the rest of ConversationService.processTurn, u being what understandIntent
\* did: the label is stored, and self.intent and self.conversation_context
\* are returned as they are then
processTurn_classify(cs, u) ==
    IF u.raised
    THEN [raised |-> TRUE, cs |-> cs, intent |-> PyNone, context |-> PyNone]
    ELSE [raised |-> FALSE,
          cs |-> [cs EXCEPT !.intent = u.value],
          intent |-> u.value,
          context |-> cs.conversation_context]

\* ConversationService.processTurn
processTurn(cs, reply, u) == processTurn_classify(processTurn_fold(cs, reply), u)

\* ConversationService.endConvo: stores and returns the reply of _call_ai
endConvo(cs, reply) ==
    LET response == call_ai(reply)
    IN  [cs |-> [cs EXCEPT !.conversation_context = response], context |-> response]

\* ConversationService.endTurn up to the call of endConvo: "if recs:
\* self.recs = recs"
endTurn_recs(cs, recs) == IF TruthyRecs(recs) THEN [cs EXCEPT !.recs = recs] ELSE cs

\* ConversationService.endTurn: what endConvo returned is stored again, and
\* self.conversation_context is returned
endTurn(cs, response, gender, recs, reply) ==
    LET r == endConvo(endTurn_recs(cs, recs), reply)
        cs1 == [r.cs EXCEPT !.conversation_context = r.context]
    IN  [cs |-> cs1, context |-> cs1.conversation_context]

(***************************************************************************)
(* GenderService (genderService.py): _call_ai has no except branch.        *)
(***************************************************************************)
GenderTexts == {"Female\n", "Not_Needed", "None"}
GenderReplies ==
    {[raised |-> TRUE, content |-> ""]}
        \cup {[raised |-> FALSE, content |-> c] : c \in GenderTexts}

getGender(reply) ==
    IF reply.raised THEN Raise("APIError") ELSE Return(strip(reply.content))

(***************************************************************************)
(* FashionState and the nodes of FashionWorkflow (fashion_graph.py).       *)
(***************************************************************************)
StyleFields == <<"body_type", "skin_tone", "height", "style_preferences", "size_preferences">>
StyleKeys == {StyleFields[k] : k \in 1..Len(StyleFields)}
SlotKeys == {"gender"} \cup StyleKeys

\* the values _check_gender_available and _generate_followup accept
AcceptedGenders == {"male", "female", "unisex", "not_needed"}

\* FashionWorkflow.questions: one question per slot key; the options of the
\* gender question
GenderOptions == <<"Male", "Female", "Non-binary", "Prefer not to say">>
questions(key) == key

\* the edges of the routing conditional (add_conditional_edges on
\* route_to_service)
RouteMap ==
    [occasion |-> "handle_occasion",
     pairing |-> "handle_pairing",
     vacation |-> "handle_vacation",
     general |-> "handle_general",
     styling |-> "handle_styling"]

\* a positional call binds when the callee takes that many parameters
PositionalCallBinds(params, nargs) == nargs = Len(params)

\* a keyword call binds when every keyword is a parameter and every parameter
\* without a default is given
KeywordCallBinds(params, required, keywords) ==
    keywords \subseteq params /\ required \subseteq keywords

\* FashionWorkflow._process_conversation
\* r being what processTurn did
process_conversation_state(st, r) ==
    IF r.raised
    THEN [st |-> [st EXCEPT !.error_message = "Error processing conversation"],
          cs |-> r.cs]
    ELSE [st |-> [st EXCEPT !.service_mode = lower(r.intent),
                            !.conversation_history = r.context],
          cs |-> r.cs]

process_conversation(st, cs, reply, u) ==
    process_conversation_state(st, processTurn(cs, reply, u))

\* FashionWorkflow._infer_gender
infer_gender(st, reply) == getGender(reply)

\* FashionWorkflow._extract_gender
extract_gender(st, reply) ==
    LET g == infer_gender(st, reply)
    IN  IF g.raised
        THEN [st EXCEPT !.error_message = "Error extracting gender"]
        ELSE [st EXCEPT !.user_info.gender = g.value]

\* FashionWorkflow._check_gender_available
\* a gate that lets every non-empty gender through, whatever its value
check_gender_available_any(st) ==
    IF Truthy(st.user_info.gender) THEN "gender_found" ELSE "gender_missing"

check_gender_available(st) ==
    LET gender == st.user_info.gender
    IN  IF Truthy(gender) /\ lower(gender) \in AcceptedGenders
        THEN "gender_found"
        ELSE "gender_missing"

\* FashionWorkflow._decide_service_route: state.get("service_mode", "general")
\* on a state that always holds the key
decide_service_route(st) == st.service_mode

\* FashionWorkflow._check_followup_needed
check_followup_needed(st) == "complete"

\* FashionWorkflow._check_followup_style_needed
\* a decision that counts the gender slot with the style slots
check_followup_style_needed_with_gender(st) ==
    LET fields == <<"gender">> \o StyleFields
        missing_fields == SelectSeq(fields, LAMBDA f : ~Truthy(st.user_info[f]))
    IN  IF Len(fields) - Len(missing_fields) < 2 THEN "followup" ELSE "complete"

check_followup_style_needed(st) ==
    LET missing_fields == SelectSeq(StyleFields, LAMBDA f : ~Truthy(st.user_info[f]))
    IN  IF Len(StyleFields) - Len(missing_fields) < 2 THEN "followup" ELSE "complete"

(***************************************************************************)
(* The strategy services, as the handlers see them.                        *)
(***************************************************************************)
\* a catalogue product; the lists a search can return
ProductLists == {[k \in 1..n |-> [product_id |-> k]] : n \in 0..MaxProducts}

\* a None where a list of products is expected
PyNoneList == [kind |-> "none", items |-> <<>>]

\* OccasionService.extract_parameters(self, user_input, parameters)
extract_parameters_params == <<"user_input", "parameters">>

\* OccasionService.core_parameters and inferred_parameters
core_parameters ==
    {"occasion", "time", "location", "body_type", "budget", "gender", "specifications"}
inferred_parameters ==
    {"weather", "formality", "mood", "color", "fabric", "trend", "age"}

\* dict.get(key) of a dict of parameter values
Get(d, key) == IF key \in DOMAIN d THEN d[key] ELSE PyNone

\* the dict {} ; bool(d) of a dict
EmptyDict == [key \in {} |-> PyNone]
TruthyDict(d) == DOMAIN d # {}

\* OccasionService._get_empty_parameters
get_empty_parameters ==
    [core_parameters |-> [param \in core_parameters |-> PyNone],
     inferred_parameters |-> [param \in inferred_parameters |-> PyNone]]

\* a user input is a sequence of words; the keywords of _keyword_fallback
\* that occur in a lowercased word as substrings
InputWords == {"Wedding", "office", "tonight", "woman"}
UserInputs == SeqsUpTo(InputWords, MaxWords)
KeywordsIn(word) ==
    CASE word = "wedding" -> {"wedding"}
      [] word = "office" -> {"office"}
      [] word = "tonight" -> {"night", "tonight"}
      [] word = "woman" -> {"man"}
      [] OTHER -> {}

\* any(word in user_lower for word in keywords)
AnyIn(keywords, user_lower) ==
    \E k \in 1..Len(user_lower) : KeywordsIn(user_lower[k]) \cap keywords # {}

\* OccasionService._keyword_fallback; a one-element list is written as its
\* element
keyword_fallback(user_input) ==
    LET user_lower == [k \in 1..Len(user_input) |-> lower(user_input[k])]
        occasion ==
            IF AnyIn({"wedding", "marriage", "shaadi"}, user_lower) THEN "wedding"
            ELSE IF AnyIn({"work", "office", "meeting"}, user_lower) THEN "work"
            ELSE IF AnyIn({"party", "celebration"}, user_lower) THEN "party"
            ELSE IF AnyIn({"date", "dinner"}, user_lower) THEN "date"
            ELSE PyNone
        gender ==
            IF AnyIn({"women", "female", "girl", "dress", "lady"}, user_lower)
            THEN "female"
            ELSE IF AnyIn({"men", "male", "guy", "man"}, user_lower) THEN "male"
            ELSE PyNone
        time ==
            IF AnyIn({"evening", "night", "tonight"}, user_lower) THEN "evening"
            ELSE IF AnyIn({"morning", "am"}, user_lower) THEN "morning"
            ELSE IF AnyIn({"afternoon", "lunch"}, user_lower) THEN "afternoon"
            ELSE PyNone
    IN  [core_parameters |->
             [occasion |-> occasion, time |-> time, location |-> PyNone,
              body_type |-> PyNone, budget |-> PyNone, gender |-> gender],
         inferred_parameters |->
             [weather |-> PyNone,
              formality |-> IF occasion = "wedding" THEN "formal" ELSE PyNone,
              mood |-> IF occasion = "wedding" THEN "elegant" ELSE PyNone,
              color |-> PyNone, fabric |-> PyNone, trend |-> PyNone, age |-> PyNone]]

\* the text the extraction prompt is answered with: whether it holds a brace
\* pair, whether json.loads accepts what is between the braces ("ok"), only
\* after the repairs of _try_fix_json ("fixable") or not at all ("broken"),
\* and the object it decodes to
TopLevelKeys == {"core_parameters", "inferred_parameters", "product_categories"}
ReplyCores ==
    {EmptyDict,
     get_empty_parameters.core_parameters,
     [get_empty_parameters.core_parameters EXCEPT !["occasion"] = "party"],
     [get_empty_parameters.core_parameters EXCEPT !["location"] = "goa",
                                                  !["budget"] = "low"]}
ReplyInferred ==
    {get_empty_parameters.inferred_parameters,
     [get_empty_parameters.inferred_parameters EXCEPT !["weather"] = "warm"]}
ExtractionReplies ==
    [braces : BOOLEAN, decode : {"ok", "fixable", "broken"},
     keys : {TopLevelKeys, TopLevelKeys \ {"product_categories"},
             TopLevelKeys \ {"inferred_parameters"}},
     core_parameters : ReplyCores, inferred_parameters : ReplyInferred]
ExtractionOutcomes == {Raise("Exception")} \cup {Return(r) : r \in ExtractionReplies}

\* the object a reply decodes to
DecodedParameters(reply) ==
    [core_parameters |-> reply.core_parameters,
     inferred_parameters |-> reply.inferred_parameters]

\* OccasionService._try_fix_json
try_fix_json(reply) ==
    IF reply.decode = "fixable"
           /\ {"core_parameters", "inferred_parameters"} \subseteq reply.keys
    THEN DecodedParameters(reply)
    ELSE get_empty_parameters

\* OccasionService._parse_ai_response
parse_ai_response(reply) ==
    IF reply.braces
    THEN IF reply.decode = "ok"
         THEN IF TopLevelKeys \subseteq reply.keys
              THEN DecodedParameters(reply)
              ELSE get_empty_parameters
         ELSE try_fix_json(reply)
    ELSE get_empty_parameters

\* OccasionService.extract_parameters: the prior parameters go into the
\* prompt only; out is what _call_ai does with that prompt
extract_parameters(user_input, parameters, out) ==
    IF out.raised THEN keyword_fallback(user_input)
    ELSE LET parsed == parse_ai_response(out.value)
         IN  IF ~TruthyDict(parsed.core_parameters)
             THEN keyword_fallback(user_input)
             ELSE parsed

\* the parameters a session can hold before an extraction: None, or what an
\* earlier extraction returned
PriorParameters ==
    {[kind |-> "none"]}
        \cup {[kind |-> "dict", core_parameters |-> c, inferred_parameters |-> i] :
                 c \in ReplyCores \ {EmptyDict}, i \in ReplyInferred}

\* PairingService.getComplementProducts: raises (the model call, json.loads
\* of its reply) or returns the list get_complements built
PairingOutcomes == {Raise("Exception")} \cup {Return(l) : l \in ProductLists}

\* VacationService.get_vacation_recommendation: raises, returns the two-key
\* dict {"error", "suggestion"} or returns the list of per-location entries
VacationOutcomes ==
    {Raise("Exception"), Return([shape |-> "error_dict", n |-> 2])}
        \cup {Return([shape |-> "locations", n |-> k]) : k \in 0..MaxLocations}

\* the catalogue: the products of each subcategory, in file order, with
\* their tags
Catalogue ==
    [Tops |-> <<[product_id |-> "PROD001", tags |-> {"cotton"}],
                [product_id |-> "PROD002", tags |-> {"cotton", "casual"}],
                [product_id |-> "PROD003", tags |-> {"cotton", "casual", "summer"}],
                [product_id |-> "PROD004", tags |-> {"casual", "summer"}]>>,
     Shoes |-> <<[product_id |-> "PROD005", tags |-> {"summer", "casual"}],
                 [product_id |-> "PROD006", tags |-> {"formal", "leather"}]>>]
CatalogueTags == {"cotton", "casual", "summer", "formal"}
RequestedSubcategories == {"Tops", "Shoes", "Hats"}

\* ProductDataService.get_subcategory_data: the products of each requested
\* subcategory the catalogue has, keyed by subcategory
get_subcategory_data(sub_categories) ==
    [subcat \in {sub_categories[k] : k \in 1..Len(sub_categories)} \cap DOMAIN Catalogue
        |-> Catalogue[subcat]]

\* the Python slice l[:n]
Prefix(l, n) == SubSeq(l, 1, IF Len(l) < n THEN Len(l) ELSE n)

\* list.sort(key=lambda x: len(x['tags']), reverse=True): a stable sort,
\* equal keys keep their order
RECURSIVE sort_by_overlap(_)
sort_by_overlap(l) ==
    IF l = <<>> THEN <<>>
    ELSE LET first == CHOOSE k \in 1..Len(l) :
                          /\ \A j \in 1..Len(l) :
                                 Cardinality(l[j].tags) <= Cardinality(l[k].tags)
                          /\ \A j \in 1..(k - 1) :
                                 Cardinality(l[j].tags) < Cardinality(l[k].tags)
         IN  <<l[first]>>
                 \o sort_by_overlap(SubSeq(l, 1, first - 1) \o SubSeq(l, first + 1, Len(l)))

\* what the validator call can do: raise inside _call_ai, or return the
\* content of the completion, which is None or a text; a text is given by
\* the product ids it names, at most five (NO_MATCHES names none)
ValidatorText(ids) == [kind |-> "str", ids |-> ids]
CheckReplies ==
    {Raise("Exception"), Return([kind |-> "none"]), Return(ValidatorText({})),
     Return(ValidatorText({"PROD001", "PROD003", "PROD005"})),
     Return(ValidatorText({"PROD002", "PROD003", "PROD004", "PROD005", "PROD006"}))}

\* RecommendationService._call_ai: the except branch returns ""
recommendation_call_ai(reply) ==
    IF reply.raised THEN ValidatorText({}) ELSE reply.value

\* RecommendationService.checkRecs: the ids the response names, or, when
\* response.strip() raises on None, the ids of the first three products it
\* was given
checkRecs(products, reply) ==
    LET response == recommendation_call_ai(reply)
    IN  IF response.kind = "none"
        THEN {Prefix(products, 3)[k].product_id : k \in 1..Len(Prefix(products, 3))}
        ELSE response.ids

\* the products of one subcategory that share one tag or more with the tag
\* set, ranked and filtered as below
subcategory_complements_one_tag(prods, tags, reply) ==
    LET matching == SelectSeq(prods, LAMBDA prod : Cardinality(prod.tags \cap tags) > 0)
        complements ==
            sort_by_overlap([k \in 1..Len(matching) |->
                                [product_id |-> matching[k].product_id,
                                 tags |-> matching[k].tags \cap tags]])
        prod_ids == checkRecs(Prefix(complements, 20), reply)
        filtered_complements ==
            Prefix(SelectSeq(complements, LAMBDA comp : comp.product_id \in prod_ids), 5)
    IN  Prefix(filtered_complements, 4)

\* the body of the loop of get_complements for one subcategory of the
\* catalogue
subcategory_complements(prods, tags, reply) ==
    LET matching == SelectSeq(prods, LAMBDA prod : Cardinality(prod.tags \cap tags) > 1)
        complements ==
            sort_by_overlap([k \in 1..Len(matching) |->
                                [product_id |-> matching[k].product_id,
                                 tags |-> matching[k].tags \cap tags]])
        prod_ids == checkRecs(Prefix(complements, 20), reply)
        filtered_complements ==
            Prefix(SelectSeq(complements, LAMBDA comp : comp.product_id \in prod_ids), 5)
    IN  Prefix(filtered_complements, 4)

\* RecommendationService.get_complements: replies gives, for each
\* subcategory, what the validator call does
RECURSIVE get_complements(_, _, _)
get_complements(tags, sub_categories, replies) ==
    IF sub_categories = <<>> THEN <<>>
    ELSE LET all_products == get_subcategory_data(sub_categories)
             subcat == Head(sub_categories)
             rest == get_complements(tags, Tail(sub_categories), replies)
         IN  IF subcat \notin DOMAIN all_products
             THEN rest
             ELSE subcategory_complements(all_products[subcat], tags, replies[subcat])
                      \o rest

\* VacationService._extract_destination: the stripped, lowercased reply of
\* the model call or, when that call raises, what the keyword fallback finds
\* in the query
DestinationReplies ==
    {Raise("Exception"), Return("goa"), Return("unknown"), Return("  ")}
FallbackDestinations == {"goa", PyNone}
extract_destination(reply, fallback) ==
    IF reply.raised THEN fallback ELSE lower(strip(reply.value))

\* VacationService.get_vacation_recommendation: rest is what the steps after
\* the destination check do
LocationOutcomes == {out \in VacationOutcomes : out.raised \/ out.value.shape = "locations"}
get_vacation_recommendation(destination, rest) ==
    IF ~Truthy(destination)
    THEN Return([shape |-> "error_dict", n |-> 2])
    ELSE rest

\* GeneralService.respond_text, get_general_reccomendations and noRecs
RespondTextOutcomes ==
    {Raise("Exception")}
        \cup {Return([dialogue |-> "general_dialogue", recommendation |-> b]) :
                 b \in BOOLEAN}
SearchOutcomes == {Raise("Exception")} \cup {Return(l) : l \in ProductLists}
NoRecsOutcomes == {Raise("Exception"), Return("general_apology")}

\* a respond that searches the catalogue before it looks at the flag
respond_searching_first(text, search, apology) ==
    IF text.raised THEN text
    ELSE IF search.raised THEN search
    ELSE IF search.value = <<>>
    THEN IF apology.raised THEN apology
         ELSE Return([dialogue |-> apology.value, prods |-> PyList(search.value)])
    ELSE Return([dialogue |-> text.value.dialogue, prods |-> PyList(search.value)])

\* GeneralService.respond
respond(text, search, apology) ==
    IF text.raised THEN text
    ELSE IF text.value.recommendation
    THEN IF search.raised THEN search
         ELSE IF search.value = <<>>
         THEN IF apology.raised THEN apology
              ELSE Return([dialogue |-> apology.value, prods |-> PyList(search.value)])
         ELSE Return([dialogue |-> text.value.dialogue, prods |-> PyList(search.value)])
    ELSE Return([dialogue |-> text.value.dialogue, prods |-> PyNoneList])

\* LooksGoodOnMeService.analyze_looks_good_on_me is declared async def
analyze_looks_good_on_me_is_async == TRUE

\* OccasionService.generate_insightful_statement: the prompt subscripts the
\* conversation with 'user' and 'bot', and a str takes no str index
generate_insightful_statement(conversation) ==
    IF conversation \in STRING THEN Raise("TypeError") ELSE Return("occasion_dialogue")

\* FashionWorkflow._generate_occasion_recommendations: out is what
\* get_recommendations did; the except branch returns the apology and no
\* products
generate_occasion_recommendations(st, out) ==
    LET dialogue == generate_insightful_statement(st.conversation_history)
    IN  IF out.raised \/ dialogue.raised
        THEN [dialogue |-> "Sorry, I couldn't generate recommendations at the moment.",
              recommendations |-> <<>>]
        ELSE [dialogue |-> dialogue.value, recommendations |-> out.value]

\* FashionWorkflow._handle_occasion: calls extract_parameters with three
\* positional arguments
handle_occasion(st, out) ==
    IF ~PositionalCallBinds(extract_parameters_params, 3)
    THEN [st EXCEPT !.error_message = "Error in occasion handling"]
    ELSE LET st1 == [st EXCEPT !.current_parameters = "parameters"]
         IN  IF ~Truthy(st1.user_info.gender)
             THEN [st1 EXCEPT !.follow_up_needed = TRUE,
                              !.follow_up_message = <<questions("gender")>>]
             ELSE LET g == generate_occasion_recommendations(st1, out)
                  IN  [st1 EXCEPT !.recommendations = PyList(g.recommendations),
                                  !.response_message = g.dialogue,
                                  !.follow_up_needed = FALSE]

\* FashionWorkflow._handle_pairing
\* a pairing handler without its except clause recording the error
handle_pairing_unrecorded(st, out) ==
    IF out.raised
    THEN st
    ELSE [st EXCEPT !.recommendations = PyList(out.value),
                    !.response_message =
                        IF out.value # <<>> THEN "pairing_found" ELSE "pairing_not_found",
                    !.follow_up_needed = FALSE]

handle_pairing(st, out) ==
    IF out.raised
    THEN [st EXCEPT !.error_message = "Error in pairing handling"]
    ELSE [st EXCEPT !.recommendations = PyList(out.value),
                    !.response_message =
                        IF out.value # <<>> THEN "pairing_found" ELSE "pairing_not_found",
                    !.follow_up_needed = FALSE]

\* FashionWorkflow._handle_vacation: "dialogue, products = ..." unpacks the
\* returned value, a dict giving its keys and a list its elements
handle_vacation(st, out) ==
    IF out.raised \/ out.value.n # 2
    THEN [st EXCEPT !.error_message = "Error in vacation handling"]
    ELSE [st EXCEPT !.recommendations =
                        IF out.value.shape = "error_dict" THEN PyStr ELSE PyDict,
                    !.response_message =
                        IF out.value.shape = "error_dict" THEN "error" ELSE "location_entry",
                    !.follow_up_needed = FALSE]

\* FashionWorkflow._handle_general
handle_general(st, out) ==
    IF out.raised
    THEN [st EXCEPT !.error_message = "Error in general handling"]
    ELSE [st EXCEPT !.recommendations =
                        IF out.value.prods.kind = "list" /\ out.value.prods.items # <<>>
                        THEN out.value.prods
                        ELSE PyList(<<>>),
                    !.response_message = out.value.dialogue,
                    !.follow_up_needed = FALSE]

\* FashionWorkflow._handle_styling: the coroutine the un-awaited call returns
\* is subscripted
handle_styling(st, out) ==
    IF analyze_looks_good_on_me_is_async \/ out.raised
    THEN [st EXCEPT !.error_message = "Error in styling handling"]
    ELSE [st EXCEPT !.recommendations = PyList(<<>>),
                    !.response_message = out.value,
                    !.follow_up_needed = FALSE]

\* the error_message values the five handlers record
HandlerErrors ==
    {"Error in occasion handling", "Error in pairing handling",
     "Error in vacation handling", "Error in general handling",
     "Error in styling handling"}

\* FashionWorkflow._generate_followup
\* a follow-up generator whose gender question is added to the style
\* questions instead of replacing them
generate_followup_appending(st) ==
    LET user_info == st.user_info
        missing_fields == SelectSeq(StyleFields, LAMBDA f : ~Truthy(user_info[f]))
        followup_questions ==
            [k \in 1..Len(missing_fields) |-> questions(missing_fields[k])]
        st1 == IF st.service_mode = "styling" /\ followup_questions # <<>>
               THEN [st EXCEPT !.follow_up_needed = TRUE,
                               !.follow_up_message = followup_questions]
               ELSE st
        gender == user_info.gender
    IN  IF ~Truthy(gender) \/ lower(gender) \notin AcceptedGenders
        THEN [st1 EXCEPT !.follow_up_needed = TRUE,
                         !.follow_up_message = @ \o <<questions("gender")>>,
                         !.is_gender_loop = TRUE]
        ELSE st1

generate_followup(st) ==
    LET user_info == st.user_info
        missing_fields == SelectSeq(StyleFields, LAMBDA f : ~Truthy(user_info[f]))
        followup_questions ==
            [k \in 1..Len(missing_fields) |-> questions(missing_fields[k])]
        st1 == IF st.service_mode = "styling" /\ followup_questions # <<>>
               THEN [st EXCEPT !.follow_up_needed = TRUE,
                               !.follow_up_message = followup_questions]
               ELSE st
        gender == user_info.gender
    IN  IF ~Truthy(gender) \/ lower(gender) \notin AcceptedGenders
        THEN [st1 EXCEPT !.follow_up_needed = TRUE,
                         !.follow_up_message = <<questions("gender")>>,
                         !.is_gender_loop = TRUE]
        ELSE st1

\* the slice [:7] of _prepare_response
RecommendationCap == 7

\* the messages of the outbound list
IntentNotice(text) ==
    [type |-> "intent", message |-> text, message_type |-> "recommendation_intro"]
ErrorMessage(text) == [type |-> "error", message |-> text]
FollowUpForm(qs) ==
    [type |-> "followup",
     title |-> "Help me personalize your recommendations",
     questions |-> qs,
     message_type |-> "followup_question"]
GenderPrompt(text) ==
    [type |-> "bot_message", message |-> text, message_type |-> "gender_question"]
BotMessage(text) ==
    [type |-> "bot_message", message |-> text, message_type |-> "recommendation_intro"]
Recommendations(items) == [type |-> "recommendations", recommendations |-> items]

\* the list comprehension of _prepare_response over recommendations[:7]
\* a comprehension over the whole list, without the slice
RecommendationItems_unsliced(items) ==
    [i \in 1..Len(items) |-> [id |-> i, product_id |-> items[i].product_id]]

RecommendationItems(items) ==
    [i \in 1..(IF Len(items) > RecommendationCap THEN RecommendationCap ELSE Len(items))
        |-> [id |-> i, product_id |-> items[i].product_id]]

\* FashionWorkflow._prepare_response: it has no try; slicing a dict or
\* indexing the characters of a str by 'product_id' raises TypeError
\* a response builder that looks at the follow-up flag before the error
prepare_response_followup_first(st) ==
    LET intent == <<IntentNotice(st.conversation_history)>>
    IN  IF st.follow_up_needed
        THEN Return([st EXCEPT !.websocket_messages =
                         intent \o <<FollowUpForm(st.follow_up_message)>>])
        ELSE IF Truthy(st.error_message)
        THEN Return([st EXCEPT !.websocket_messages =
                         intent \o <<ErrorMessage(st.error_message)>>])
        ELSE Return([st EXCEPT !.websocket_messages =
                         intent \o <<BotMessage(st.response_message)>>])

\* a response builder that adds the recommendations message whatever the
\* list holds, and keeps the follow-up form next to the bot message
prepare_response_unconditional(st) ==
    LET intent == <<IntentNotice(st.conversation_history)>>
        form == IF st.follow_up_needed
                THEN <<FollowUpForm(st.follow_up_message)>> ELSE <<>>
    IN  IF Truthy(st.error_message)
        THEN Return([st EXCEPT !.websocket_messages =
                         intent \o <<ErrorMessage(st.error_message)>>])
        ELSE Return([st EXCEPT !.websocket_messages =
                         intent \o form \o
                             <<BotMessage(st.response_message),
                               Recommendations(
                                   RecommendationItems(st.recommendations.items))>>])

prepare_response(st) ==
    LET intent == <<IntentNotice(st.conversation_history)>>
    IN  IF Truthy(st.error_message)
        THEN Return([st EXCEPT !.websocket_messages =
                         intent \o <<ErrorMessage(st.error_message)>>])
        ELSE IF st.follow_up_needed
        THEN Return([st EXCEPT !.websocket_messages =
                         intent \o <<FollowUpForm(st.follow_up_message)>>])
        ELSE IF st.is_gender_loop
        THEN Return([st EXCEPT !.websocket_messages =
                         intent \o <<GenderPrompt(st.response_message)>>])
        ELSE IF ~TruthyRecs(st.recommendations)
        THEN Return([st EXCEPT !.websocket_messages =
                         intent \o <<BotMessage(st.response_message)>>])
        ELSE IF st.recommendations.kind # "list"
        THEN Raise("TypeError")
        ELSE Return([st EXCEPT !.websocket_messages =
                         intent \o <<BotMessage(st.response_message),
                                     Recommendations(
                                         RecommendationItems(st.recommendations.items))>>])

\* FashionWorkflow._process_bot_response
process_bot_response(st, cs, reply) ==
    LET r == endTurn(cs, st.response_message, st.user_info.gender,
                     st.recommendations, reply)
    IN  [st |-> [st EXCEPT !.conversation_history = r.context], cs |-> r.cs]

(***************************************************************************)
(* ChatSession (fashion_graph.py).                                         *)
(***************************************************************************)
\* ChatSession.__init__
ChatSessionInit ==
    [conversation_history |-> "",
     service_mode |-> PyNone,
     current_parameters |-> PyNone,
     current_recommendations |-> PyNoneList,
     gender |-> PyNone]

\* the user_info of a turn: {'gender': None} updated with the follow-up data
NoSlots == [k \in SlotKeys |-> PyNone]
UserInfo(followup_data) ==
    [k \in SlotKeys |-> IF followup_data[k] # PyNone
                        THEN followup_data[k] ELSE NoSlots[k]]

\* ChatSession.process_with_langgraph, up to the call of ainvoke: the
\* initial FashionState
InitialState(session, user_input, followup_data) ==
    [user_input |-> user_input,
     conversation_history |-> session.conversation_history,
     service_mode |-> session.service_mode,
     gender |-> session.gender,
     current_parameters |-> session.current_parameters,
     recommendations |-> PyList(<<>>),
     response_message |-> PyNone,
     websocket_messages |-> <<>>,
     follow_up_needed |-> FALSE,
     follow_up_message |-> <<>>,
     error_message |-> PyNone,
     is_gender_loop |-> FALSE,
     user_info |-> UserInfo(followup_data)]

\* ChatSession.process_with_langgraph after ainvoke returned: the session
\* fields are taken from the final state
UpdateSession(session, final_state) ==
    [conversation_history |-> final_state.conversation_history,
     service_mode |-> final_state.service_mode,
     gender |-> final_state.gender,
     current_parameters |-> final_state.current_parameters,
     current_recommendations |-> final_state.recommendations]

\* an except clause that returns no message
WorkflowErrorList_none == <<>>

\* the list process_with_langgraph returns when ainvoke raised
WorkflowErrorList == <<ErrorMessage("Sorry, I encountered an error")>>

\* ChatSession.process_with_langgraph(self, user_input, client_id,
\* followup_data=None)
process_with_langgraph_params == {"user_input", "client_id", "followup_data"}
process_with_langgraph_required == {"user_input", "client_id"}

(***************************************************************************)
(* The websocket endpoint (main.py).                                       *)
(***************************************************************************)
Client == "client_1"

\* the "message" field of a text message, before .strip()
MessageTexts == {"", "  ", "1", "4", "menu", "MENU", "Start Over", " hello "}

ServiceKeys == {"1", "2", "3", "4"}
MenuCommands == {"menu", "back", "main menu", "start over"}

\* the "service" field of a service_button message
ButtonKeys == {"1", "9"}

\* the "responses" of a follow-up form submission: a value for some of the
\* slot keys (PyNone: the key is absent)
\* the forms of the model answer the gender question with its first or its
\* third option or not at all, and some of the first MaxStyleAnswers style
\* questions
FormGenders == {PyNone, GenderOptions[1], GenderOptions[3]}
AnsweredStyleKeys == {StyleFields[k] : k \in 1..MaxStyleAnswers}
FollowupForms ==
    {fd \in [SlotKeys -> FormGenders \cup {"answered"}] :
        /\ fd.gender \in FormGenders
        /\ \A k \in StyleKeys : fd[k] \in {PyNone, "answered"}
        /\ \A k \in StyleKeys \ AnsweredStyleKeys : fd[k] = PyNone}

\* the query the follow-up branch builds from the keys of the responses
FollowupQuery == "Info provided for the following"

UserEcho(text) == [type |-> "user_message", message |-> text]
Typing == [type |-> "typing", message |-> "Bot is thinking..."]
MenuMessage ==
    [type |-> "bot_message", message |-> "Main Menu", show_service_buttons |-> TRUE]
SelectionMessage(key) ==
    [type |-> "bot_message", message |-> "Great choice!", service |-> key,
     show_feedback |-> TRUE]
ButtonMessages(key) ==
    <<[type |-> "bot_message", message |-> "Great!", service |-> key],
      [type |-> "service_examples", service |-> key],
      [type |-> "bot_message", message |-> "What would you like help with?",
       show_feedback |-> TRUE]>>
HandlerErrorMessage == ErrorMessage("Sorry, I encountered an error")

\* what the sending loops of the follow-up branch and of
\* process_user_input_new put on the wire for one message of the list
Wire(m) == IF m.type = "bot_message" THEN m @@ [show_feedback |-> TRUE] ELSE m
WireList(messages) == [k \in 1..Len(messages) |-> Wire(messages[k])]

VARIABLES
    conn,           \* "open" while the receive loop of websocket_endpoint runs
    chat_sessions,  \* the client ids registered in chat_sessions
    user_states,    \* user_states[client_id]: "menu" or "chat"
    session,        \* the fields of the client's ChatSession
    conv,           \* the ConversationService of that session's workflow
    inbound,        \* the inbound message being handled, or handled last
    runs,           \* workflow invocations started for that message
    sent,           \* what was sent to the client for that message
    caller,         \* the branch that invoked the workflow
    pc,             \* "idle", the node of the state graph to run, "END", "raised"
    st,             \* the FashionState of the turn
    trace,          \* the nodes the turn has run
    handler_call,   \* whether the handler's service call returned or raised
    turns,          \* workflow invocations started so far
    call,           \* one call of a function of the program, taken alone
    tasks,          \* the connection tasks of websocket_endpoint and the objects they share
    feed            \* the feedback bookkeeping of one session of websocket_endpoint

vars == <<conn, chat_sessions, user_states, session, conv, inbound, runs, sent,
          caller, pc, st, trace, handler_call, turns, call, tasks, feed>>

connVars == <<conn, chat_sessions, user_states>>

NoMessage == [kind |-> "none", text |-> ""]

\* no turn is running: the FashionState of an earlier turn is not reachable
\* from the session once a later message is handled
NoState == InitialState(ChatSessionInit, "", NoSlots)
NoTurn ==
    /\ pc' = "idle"
    /\ st' = NoState
    /\ trace' = <<>>
    /\ handler_call' = "none"
    /\ caller' = "none"
    /\ runs' = 0
    /\ UNCHANGED <<turns, conv>>

\* client ids, the connections that can be open at a time, and the cap on
\* the ChatSession objects created
ClientIds == {"client_1", "client_2"}
Connections == {1, 2}

\* no connection is open and chat_sessions is empty; object 0 stands for an
\* absent entry
NoObject == 0
NewChatSession == [session |-> ChatSessionInit, conversation |-> ConversationServiceInit]
NoTasks ==
    [at |-> [k \in Connections |-> "closed"],
     node |-> [k \in Connections |-> "none"],
     st |-> [k \in Connections |-> NoState],
     response |-> [k \in Connections |-> PyNone],
     client_id |-> [k \in Connections |-> PyNone],
     session |-> [k \in Connections |-> NoObject],
     chat_sessions |-> [c \in ClientIds |-> NoObject],
     heap |-> [o \in 1..MaxObjects |-> NewChatSession],
     allocated |-> 0,
     turns |-> 0]

\* no function is called alone
NoCall == [fn |-> "none", done |-> TRUE]

\* a session right after websocket_endpoint registered it: the UI state is
\* menu, conversation_history[client_id] is empty, nothing was sent with
\* show_feedback and no feedback was saved
NoFeed == [ui |-> "menu", history |-> <<>>, rated |-> <<>>, saved |-> <<>>,
           last |-> "connect"]

Server ==
    /\ conn = "closed"
    /\ chat_sessions = {}
    /\ user_states = "menu"
    /\ session = ChatSessionInit
    /\ conv = ConversationServiceInit
    /\ inbound = NoMessage
    /\ runs = 0
    /\ sent = <<>>
    /\ caller = "none"
    /\ pc = "idle"
    /\ st = NoState
    /\ trace = <<>>
    /\ handler_call = "none"
    /\ turns = 0

Init == Server /\ call = NoCall /\ tasks = NoTasks /\ feed = NoFeed

\* websocket_endpoint up to the receive loop: a client id that is not
\* registered gets a new ChatSession with new services
Connect ==
    /\ conn = "closed"
    /\ conn' = "open"
    /\ chat_sessions' = chat_sessions \cup {Client}
    /\ IF Client \in chat_sessions
       THEN UNCHANGED <<user_states, session, conv>>
       ELSE /\ user_states' = "menu"
            /\ session' = ChatSessionInit
            /\ conv' = ConversationServiceInit
    /\ inbound' = NoMessage
    /\ runs' = 0
    /\ sent' = <<MenuMessage>>
    /\ pc' = "idle"
    /\ st' = NoState
    /\ trace' = <<>>
    /\ handler_call' = "none"
    /\ caller' = "none"
    /\ UNCHANGED turns
    /\ UNCHANGED <<call, tasks, feed>>

\* receive_text raises WebSocketDisconnect: the except branch removes the
\* client's entries of chat_sessions, conversation_history and user_states.
\* An absent user_states entry reads as "menu"; the ChatSession and its
\* services are dropped, and stand as a newly built one would
Disconnect ==
    /\ conn = "open" /\ pc = "idle"
    /\ conn' = "closed"
    /\ chat_sessions' = chat_sessions \ {Client}
    /\ user_states' = "menu"
    /\ session' = ChatSessionInit
    /\ conv' = ConversationServiceInit
    /\ inbound' = [kind |-> "disconnect", text |-> ""]
    /\ sent' = <<>>
    /\ pc' = "idle"
    /\ st' = NoState
    /\ trace' = <<>>
    /\ handler_call' = "none"
    /\ caller' = "none"
    /\ runs' = 0
    /\ UNCHANGED turns
    /\ UNCHANGED <<call, tasks, feed>>

\* an inbound message on which the loop body raises before any branch is
\* taken (json.loads of the text, base64 / PIL on the image) or in the
\* follow-up branch (responses.keys() on a value that is no dict): the
\* exception leaves the while loop through "except Exception"
ReceiveRaising ==
    /\ conn = "open" /\ pc = "idle"
    /\ \E kind \in {"bad_json", "bad_image", "followup_bad_shape"} :
           inbound' = [kind |-> kind, text |-> ""]
    /\ conn' = "closed"
    /\ sent' = <<>>
    /\ NoTurn
    /\ UNCHANGED <<chat_sessions, user_states, session>>
    /\ UNCHANGED <<call, tasks, feed>>

\* a feedback message: conversation_history[client_id] is searched for the
\* message id; nothing is sent when no entry has it
ReceiveFeedback ==
    /\ conn = "open" /\ pc = "idle"
    /\ inbound' = [kind |-> "feedback", text |-> ""]
    /\ sent' = <<>>
    /\ NoTurn
    /\ UNCHANGED <<connVars, session>>
    /\ UNCHANGED <<call, tasks, feed>>

\* a service_button message: handle_service_button_click
ReceiveServiceButton ==
    /\ conn = "open" /\ pc = "idle"
    /\ \E key \in ButtonKeys :
           /\ inbound' = [kind |-> "service_button", text |-> key]
           /\ IF key \in ServiceKeys
              THEN user_states' = "chat" /\ sent' = ButtonMessages(key)
              ELSE user_states' = user_states /\ sent' = <<>>
    /\ NoTurn
    /\ UNCHANGED <<conn, chat_sessions, session>>
    /\ UNCHANGED <<call, tasks, feed>>

\* the start of ChatSession.process_with_langgraph: a new FashionState is
\* handed to the state graph, whose entry point is process_conversation
StartTurn(user_input, followup_data, branch) ==
    /\ turns < MaxTurns
    /\ turns' = turns + 1
    /\ runs' = 1
    /\ caller' = branch
    /\ pc' = "process_conversation"
    /\ st' = InitialState(session, user_input, followup_data)
    /\ trace' = <<>>
    /\ handler_call' = "none"

\* a followup_response message whose responses are a dict
ReceiveFollowup ==
    /\ conn = "open" /\ pc = "idle"
    /\ \E fd \in FollowupForms :
           /\ inbound' = [kind |-> "followup_response", text |-> ""]
           /\ sent' = <<>>
           /\ StartTurn(FollowupQuery, fd, "followup")
    /\ UNCHANGED <<connVars, session, conv>>
    /\ UNCHANGED <<call, tasks, feed>>

\* handle_user_input_with_state: what is done with a non-empty text in a
\* given UI state
handle_user_input_with_state(current_state, user_input) ==
    IF current_state = "menu" /\ user_input \in ServiceKeys
    THEN [do |-> "handle_service_selection", state |-> "chat"]
    ELSE IF lower(user_input) \in MenuCommands
    THEN [do |-> "show_main_menu", state |-> "menu"]
    ELSE [do |-> "process_user_input_new", state |-> "chat"]

\* the keywords process_user_input_new passes to process_with_langgraph
process_user_input_new_keywords == {"user_input", "client_id", "image"}

\* a text message: the empty text is skipped; any other is echoed and handed
\* to handle_user_input_with_state.  process_user_input_new sends the typing
\* notice and calls process_with_langgraph; a TypeError of that call is
\* caught by its except branch, which sends an error message
ReceiveText ==
    /\ conn = "open" /\ pc = "idle"
    /\ \E m \in MessageTexts :
         LET user_input == strip(m)
             h == handle_user_input_with_state(user_states, user_input)
         IN  /\ inbound' = [kind |-> "text", text |-> user_input]
             /\ IF user_input = ""
                THEN /\ sent' = <<>>
                     /\ NoTurn
                     /\ UNCHANGED user_states
                ELSE /\ user_states' = h.state
                     /\ IF h.do = "handle_service_selection"
                        THEN /\ sent' = <<UserEcho(user_input), SelectionMessage(user_input)>>
                             /\ NoTurn
                        ELSE IF h.do = "show_main_menu"
                        THEN /\ sent' = <<UserEcho(user_input), MenuMessage>>
                             /\ NoTurn
                        ELSE IF KeywordCallBinds(process_with_langgraph_params,
                                                 process_with_langgraph_required,
                                                 process_user_input_new_keywords)
                        THEN /\ sent' = <<UserEcho(user_input), Typing>>
                             /\ StartTurn(user_input, NoSlots, "text")
                             /\ UNCHANGED conv
                        ELSE /\ sent' = <<UserEcho(user_input), Typing, HandlerErrorMessage>>
                             /\ NoTurn
    /\ UNCHANGED <<conn, chat_sessions, session>>
    /\ UNCHANGED <<call, tasks, feed>>

(***************************************************************************)
(* The nodes and edges of the state graph (_build_workflow).               *)
(***************************************************************************)
\* the target of a handler's conditional edge
FollowupEdge(decision) ==
    IF decision = "followup" THEN "generate_followup" ELSE "prepare_response"

Visit(node) == trace' = Append(trace, node)

ProcessConversation ==
    /\ pc = "process_conversation"
    /\ \E reply \in UserFoldReplies, u \in UnderstandIntentOutcomes :
         LET r == process_conversation(st, conv, reply, u)
         IN  st' = r.st /\ conv' = r.cs
    /\ pc' = "extract_gender"
    /\ Visit("process_conversation")
    /\ UNCHANGED <<connVars, session, inbound, runs, sent, caller, handler_call, turns>>
    /\ UNCHANGED <<call, tasks, feed>>

\* extract_gender and its conditional edge _check_gender_available
ExtractGender ==
    /\ pc = "extract_gender"
    /\ \E reply \in GenderReplies :
         LET st1 == extract_gender(st, reply)
         IN  /\ st' = st1
             /\ pc' = IF check_gender_available(st1) = "gender_found"
                      THEN "route_to_service"
                      ELSE "generate_followup"
    /\ Visit("extract_gender")
    /\ UNCHANGED <<connVars, session, conv, inbound, runs, sent, caller,
                   handler_call, turns>>
    /\ UNCHANGED <<call, tasks, feed>>

\* route_to_service and its conditional edge _decide_service_route: a
\* decision that is no key of the edge map raises out of the graph
RouteToService ==
    /\ pc = "route_to_service"
    /\ LET decision == decide_service_route(st)
       IN  pc' = IF decision \in DOMAIN RouteMap THEN RouteMap[decision] ELSE "raised"
    /\ Visit("route_to_service")
    /\ UNCHANGED <<connVars, session, conv, inbound, runs, sent, caller, st,
                   handler_call, turns>>
    /\ UNCHANGED <<call, tasks, feed>>

Called(raised) == IF raised THEN "raised" ELSE "returned"

HandleOccasion ==
    /\ pc = "handle_occasion"
    /\ \E out \in SearchOutcomes :
         /\ st' = handle_occasion(st, out)
         /\ handler_call' = Called(~PositionalCallBinds(extract_parameters_params, 3))
         /\ pc' = FollowupEdge(check_followup_needed(st'))
    /\ Visit("handle_occasion")
    /\ UNCHANGED <<connVars, session, conv, inbound, runs, sent, caller, turns>>
    /\ UNCHANGED <<call, tasks, feed>>

HandlePairing ==
    /\ pc = "handle_pairing"
    /\ \E out \in PairingOutcomes :
         /\ st' = handle_pairing(st, out)
         /\ handler_call' = Called(out.raised)
         /\ pc' = FollowupEdge(check_followup_needed(st'))
    /\ Visit("handle_pairing")
    /\ UNCHANGED <<connVars, session, conv, inbound, runs, sent, caller, turns>>
    /\ UNCHANGED <<call, tasks, feed>>

HandleVacation ==
    /\ pc = "handle_vacation"
    /\ \E out \in VacationOutcomes :
         /\ st' = handle_vacation(st, out)
         /\ handler_call' = Called(out.raised)
         /\ pc' = FollowupEdge(check_followup_needed(st'))
    /\ Visit("handle_vacation")
    /\ UNCHANGED <<connVars, session, conv, inbound, runs, sent, caller, turns>>
    /\ UNCHANGED <<call, tasks, feed>>

HandleGeneral ==
    /\ pc = "handle_general"
    /\ \E text \in RespondTextOutcomes, search \in SearchOutcomes,
          apology \in NoRecsOutcomes :
         LET out == respond(text, search, apology)
         IN  /\ st' = handle_general(st, out)
             /\ handler_call' = Called(out.raised)
    /\ pc' = "prepare_response"
    /\ Visit("handle_general")
    /\ UNCHANGED <<connVars, session, conv, inbound, runs, sent, caller, turns>>
    /\ UNCHANGED <<call, tasks, feed>>

HandleStyling ==
    /\ pc = "handle_styling"
    /\ \E out \in {Return("styling_text")} :
         /\ st' = handle_styling(st, out)
         /\ handler_call' = Called(out.raised)
         /\ pc' = FollowupEdge(check_followup_style_needed(st'))
    /\ Visit("handle_styling")
    /\ UNCHANGED <<connVars, session, conv, inbound, runs, sent, caller, turns>>
    /\ UNCHANGED <<call, tasks, feed>>

GenerateFollowup ==
    /\ pc = "generate_followup"
    /\ st' = generate_followup(st)
    /\ pc' = "prepare_response"
    /\ Visit("generate_followup")
    /\ UNCHANGED <<connVars, session, conv, inbound, runs, sent, caller,
                   handler_call, turns>>
    /\ UNCHANGED <<call, tasks, feed>>

\* prepare_response: an exception of the node raises out of the graph
PrepareResponse ==
    /\ pc = "prepare_response"
    /\ LET r == prepare_response(st)
       IN  IF r.raised
           THEN pc' = "raised" /\ st' = st
           ELSE pc' = "process_bot_response" /\ st' = r.value
    /\ Visit("prepare_response")
    /\ UNCHANGED <<connVars, session, conv, inbound, runs, sent, caller,
                   handler_call, turns>>
    /\ UNCHANGED <<call, tasks, feed>>

ProcessBotResponse ==
    /\ pc = "process_bot_response"
    /\ \E reply \in BotFoldReplies :
         LET r == process_bot_response(st, conv, reply)
         IN  st' = r.st /\ conv' = r.cs
    /\ pc' = "END"
    /\ Visit("process_bot_response")
    /\ UNCHANGED <<connVars, session, inbound, runs, sent, caller,
                   handler_call, turns>>
    /\ UNCHANGED <<call, tasks, feed>>

\* ainvoke returned: process_with_langgraph updates the session and returns
\* websocket_messages, which the calling branch sends one by one
Finish ==
    /\ pc = "END"
    /\ session' = UpdateSession(session, st)
    /\ sent' = sent \o WireList(st.websocket_messages)
    /\ pc' = "idle"
    /\ UNCHANGED <<connVars, conv, inbound, runs, caller, st, trace,
                   handler_call, turns>>
    /\ UNCHANGED <<call, tasks, feed>>

\* ainvoke raised: process_with_langgraph returns the one-message error list
FinishRaised ==
    /\ pc = "raised"
    /\ sent' = sent \o WireList(WorkflowErrorList)
    /\ pc' = "idle"
    /\ UNCHANGED <<connVars, session, conv, inbound, runs, caller, st, trace,
                   handler_call, turns>>
    /\ UNCHANGED <<call, tasks, feed>>

Next ==
    \/ Connect
    \/ Disconnect
    \/ ReceiveRaising
    \/ ReceiveFeedback
    \/ ReceiveServiceButton
    \/ ReceiveText
    \/ ReceiveFollowup
    \/ ProcessConversation
    \/ ExtractGender
    \/ RouteToService
    \/ HandleOccasion
    \/ HandlePairing
    \/ HandleVacation
    \/ HandleGeneral
    \/ HandleStyling
    \/ GenerateFollowup
    \/ PrepareResponse
    \/ ProcessBotResponse
    \/ Finish
    \/ FinishRaised

Spec == Init /\ [][Next]_vars

\* ainvoke runs the nodes of a turn one after the other, and every external
\* call returns or raises: a turn that can take its next step takes it
WorkflowStep ==
    \/ ProcessConversation \/ ExtractGender \/ RouteToService
    \/ HandleOccasion \/ HandlePairing \/ HandleVacation \/ HandleGeneral
    \/ HandleStyling \/ GenerateFollowup \/ PrepareResponse
    \/ ProcessBotResponse \/ Finish \/ FinishRaised

\* the connections on which only follow-up submissions arrive: no other
\* message starts a turn on the workflow
NextTurns == Connect \/ Disconnect \/ ReceiveFollowup \/ WorkflowStep

SpecTurns == Init /\ [][NextTurns]_vars /\ WF_vars(WorkflowStep)

(***************************************************************************)
(* Functions of the program taken alone: a call is drawn with its          *)
(* arguments and applied once.                                             *)
(***************************************************************************)
\* the states a ConversationService can be in when a fold is called
FoldContexts == {"", "user_turn_summary", "bot_turn_summary"}
FoldServices ==
    {[ConversationServiceInit EXCEPT !.conversation_context = c] : c \in FoldContexts}

\* the states a handler can leave for _prepare_response: a dialogue and the
\* products of a search, in the order the search returned them
RankedProducts(n) == [k \in 1..n |-> [product_id |-> 100 + n - k]]
HandledStates ==
    {[NoState EXCEPT !.recommendations = PyList(RankedProducts(n)),
                     !.response_message = "dialogue",
                     !.error_message = e,
                     !.follow_up_needed = f,
                     !.is_gender_loop = g] :
        n \in 0..MaxRecs, e \in {PyNone, "Error in pairing handling"},
        f \in BOOLEAN, g \in BOOLEAN}

\* the states _prepare_response hands to _process_bot_response
PreparedStates ==
    {prepare_response(state).value :
        state \in {h \in HandledStates : Len(h.recommendations.items) <= 1}}

PendingCalls ==
    {[fn |-> "understandIntent", done |-> FALSE, reply |-> r] : r \in ClassifierReplies}
        \cup {[fn |-> "addToConversation", done |-> FALSE, cs |-> cs, reply |-> r] :
                 cs \in FoldServices, r \in UserFoldReplies}
        \cup {[fn |-> "endConvo", done |-> FALSE, cs |-> cs, reply |-> r] :
                 cs \in FoldServices, r \in BotFoldReplies}
        \cup {[fn |-> "prepare_response", done |-> FALSE, st |-> state] :
                 state \in HandledStates}
        \cup {[fn |-> "process_bot_response", done |-> FALSE, st |-> state,
                cs |-> cs, reply |-> r] :
                 state \in PreparedStates, cs \in FoldServices, r \in BotFoldReplies}
        \cup {[fn |-> "respond", done |-> FALSE, text |-> text, search |-> search,
                apology |-> apology] :
                 text \in RespondTextOutcomes, search \in SearchOutcomes,
                 apology \in NoRecsOutcomes}
        \cup {[fn |-> "extract_parameters", done |-> FALSE, user_input |-> u,
                parameters |-> prior, out |-> out] :
                 u \in UserInputs, prior \in PriorParameters,
                 out \in ExtractionOutcomes}
        \cup {[fn |-> "handle_vacation", done |-> FALSE, reply |-> reply,
                fallback |-> fallback, rest |-> rest] :
                 reply \in DestinationReplies, fallback \in FallbackDestinations,
                 rest \in LocationOutcomes}
        \cup {[fn |-> "get_complements", done |-> FALSE, tags |-> tags,
                sub_categories |-> subs, replies |-> replies] :
                 tags \in SUBSET CatalogueTags,
                 subs \in SeqsUpTo(RequestedSubcategories, MaxSubcategories),
                 replies \in [DOMAIN Catalogue -> CheckReplies]}

InitCalls == Server /\ call \in PendingCalls /\ tasks = NoTasks /\ feed = NoFeed

Frame ==
    UNCHANGED <<conn, chat_sessions, user_states, session, conv, inbound, runs,
                sent, caller, pc, st, trace, handler_call, turns>>

CallUnderstandIntent ==
    /\ call.fn = "understandIntent" /\ ~call.done
    /\ call' = [fn |-> call.fn, done |-> TRUE, reply |-> call.reply,
                result |-> understandIntent(call.reply)]
    /\ Frame
    /\ UNCHANGED <<tasks, feed>>

\* processTurn stores what addToConversation returned
CallAddToConversation ==
    /\ call.fn = "addToConversation" /\ ~call.done
    /\ LET r == processTurn(call.cs, call.reply, Return("General"))
       IN  call' = [fn |-> call.fn, done |-> TRUE, cs |-> call.cs, reply |-> call.reply,
                    returned |-> r.context, stored |-> r.cs.conversation_context]
    /\ Frame
    /\ UNCHANGED <<tasks, feed>>

CallEndConvo ==
    /\ call.fn = "endConvo" /\ ~call.done
    /\ LET r == endConvo(call.cs, call.reply)
       IN  call' = [fn |-> call.fn, done |-> TRUE, cs |-> call.cs, reply |-> call.reply,
                    returned |-> r.context, stored |-> r.cs.conversation_context]
    /\ Frame
    /\ UNCHANGED <<tasks, feed>>

CallPrepareResponse ==
    /\ call.fn = "prepare_response" /\ ~call.done
    /\ call' = [fn |-> call.fn, done |-> TRUE, st |-> call.st,
                result |-> prepare_response(call.st)]
    /\ Frame
    /\ UNCHANGED <<tasks, feed>>

CallProcessBotResponse ==
    /\ call.fn = "process_bot_response" /\ ~call.done
    /\ LET r == process_bot_response(call.st, call.cs, call.reply)
       IN  call' = [fn |-> call.fn, done |-> TRUE, st |-> call.st, cs |-> call.cs,
                    reply |-> call.reply, result |-> r.st, stored |-> r.cs]
    /\ Frame
    /\ UNCHANGED <<tasks, feed>>

\* GeneralService.respond with what respond_text, the catalogue search and
\* noRecs would answer if they are called
CallRespond ==
    /\ call.fn = "respond" /\ ~call.done
    /\ call' = [fn |-> call.fn, done |-> TRUE, text |-> call.text,
                search |-> call.search, apology |-> call.apology,
                result |-> respond(call.text, call.search, call.apology)]
    /\ Frame
    /\ UNCHANGED <<tasks, feed>>

\* OccasionService.extract_parameters with the parameters of the session
\* and what the model call does
CallExtractParameters ==
    /\ call.fn = "extract_parameters" /\ ~call.done
    /\ call' = [fn |-> call.fn, done |-> TRUE, user_input |-> call.user_input,
                parameters |-> call.parameters, out |-> call.out,
                result |-> extract_parameters(call.user_input, call.parameters,
                                              call.out)]
    /\ Frame
    /\ UNCHANGED <<tasks, feed>>

\* a vacation turn from the handler on: _handle_vacation on what
\* get_vacation_recommendation does, then _prepare_response
CallHandleVacation ==
    /\ call.fn = "handle_vacation" /\ ~call.done
    /\ LET destination == extract_destination(call.reply, call.fallback)
           out == get_vacation_recommendation(destination, call.rest)
           state == [NoState EXCEPT !.service_mode = "vacation"]
       IN  call' = [fn |-> call.fn, done |-> TRUE, reply |-> call.reply,
                    fallback |-> call.fallback, rest |-> call.rest,
                    destination |-> destination, out |-> out,
                    handled |-> handle_vacation(state, out),
                    result |-> prepare_response(handle_vacation(state, out))]
    /\ Frame
    /\ UNCHANGED <<tasks, feed>>

\* RecommendationService.get_complements; segments keeps, for each requested
\* subcategory, what its pass of the loop added to the returned list
CallGetComplements ==
    /\ call.fn = "get_complements" /\ ~call.done
    /\ LET all_products == get_subcategory_data(call.sub_categories)
       IN  call' = [fn |-> call.fn, done |-> TRUE, tags |-> call.tags,
                    sub_categories |-> call.sub_categories, replies |-> call.replies,
                    segments |->
                        [k \in 1..Len(call.sub_categories) |->
                            IF call.sub_categories[k] \in DOMAIN all_products
                            THEN subcategory_complements(
                                     all_products[call.sub_categories[k]], call.tags,
                                     call.replies[call.sub_categories[k]])
                            ELSE <<>>],
                    result |-> get_complements(call.tags, call.sub_categories,
                                               call.replies)]
    /\ Frame
    /\ UNCHANGED <<tasks, feed>>

NextCalls ==
    \/ CallGetComplements
    \/ CallHandleVacation
    \/ CallExtractParameters
    \/ CallRespond
    \/ CallProcessBotResponse
    \/ CallUnderstandIntent
    \/ CallAddToConversation
    \/ CallEndConvo
    \/ CallPrepareResponse

SpecCalls == InitCalls /\ [][NextCalls]_vars

(***************************************************************************)
(* The connection tasks of websocket_endpoint taken together: each         *)
(* connection is an asyncio task, and the tasks share the module's         *)
(* chat_sessions and the ChatSession objects it holds.                     *)
(***************************************************************************)
\* one ChatSession object for every client id
SharedObject(allocated) == 1

\* ChatSession(services_dict) with the services created in the call of
\* websocket_endpoint: an object no other connection created
NewObject(allocated) == allocated + 1

\* what the external calls do in the turns of the connection tasks: the
\* labels of the classifier, the texts of the folds and of the gender call,
\* and the outcomes of the pairing search and of the general service
TaskLabels == {"General", "Pairing"}
TaskUserFolds == {[raised |-> FALSE, content |-> "user_turn_summary"]}
TaskBotFolds == {[raised |-> FALSE, content |-> "bot_turn_summary"]}
TaskGenderReplies == {[raised |-> FALSE, content |-> c] : c \in {"None", "Female\n"}}
TaskPairingOutcomes == {Raise("Exception")}
TaskGeneralOutcomes ==
    {respond(Return([dialogue |-> "general_dialogue", recommendation |-> FALSE]),
             Raise("Exception"), Raise("Exception"))}

\* websocket_endpoint up to the receive loop
TaskConnect(k, c) ==
    /\ tasks.at[k] = "closed"
    /\ LET registered == tasks.chat_sessions[c] # NoObject
           o == IF registered THEN tasks.chat_sessions[c]
                              ELSE NewObject(tasks.allocated)
       IN  /\ registered \/ tasks.allocated < MaxObjects
           /\ tasks' = [tasks EXCEPT
                  !.at[k] = "receive",
                  !.client_id[k] = c,
                  !.session[k] = o,
                  !.chat_sessions[c] = o,
                  !.heap[o] = IF registered THEN @ ELSE NewChatSession,
                  !.allocated = IF registered THEN @ ELSE @ + 1]
    /\ Frame
    /\ UNCHANGED <<call, feed>>

\* a follow-up submission is received: process_with_langgraph builds the
\* initial state from the ChatSession the task holds and awaits ainvoke;
\* other tasks run while it waits
TaskStartTurn(k) ==
    /\ tasks.at[k] = "receive"
    /\ tasks.turns < MaxTaskTurns
    /\ tasks' = [tasks EXCEPT
           !.turns = @ + 1,
           !.at[k] = "ainvoke",
           !.node[k] = "process_conversation",
           !.st[k] = InitialState(tasks.heap[tasks.session[k]].session,
                                  FollowupQuery, NoSlots)]
    /\ Frame
    /\ UNCHANGED <<call, feed>>

\* the node process_conversation up to the classifier call of processTurn:
\* the context of the ConversationService of the ChatSession is written; the
\* node runs in a worker thread and waits in the call while other tasks run
TaskAddToConversation(k) ==
    /\ tasks.at[k] = "ainvoke" /\ tasks.node[k] = "process_conversation"
    /\ \E reply \in TaskUserFolds :
         LET o == tasks.session[k]
         IN  tasks' = [tasks EXCEPT
                 !.node[k] = "understandIntent",
                 !.heap[o].conversation = processTurn_fold(@, reply)]
    /\ Frame
    /\ UNCHANGED <<call, feed>>

\* the rest of the node process_conversation: processTurn writes the intent
\* and returns the intent and the context the ConversationService holds then
TaskUnderstandIntent(k) ==
    /\ tasks.at[k] = "ainvoke" /\ tasks.node[k] = "understandIntent"
    /\ \E label \in TaskLabels :
         LET o == tasks.session[k]
             r == process_conversation_state(
                      tasks.st[k],
                      processTurn_classify(tasks.heap[o].conversation, Return(label)))
         IN  tasks' = [tasks EXCEPT
                 !.node[k] = "extract_gender",
                 !.st[k] = r.st,
                 !.heap[o].conversation = r.cs]
    /\ Frame
    /\ UNCHANGED <<call, feed>>

\* the node extract_gender and its conditional edge
TaskExtractGender(k) ==
    /\ tasks.at[k] = "ainvoke" /\ tasks.node[k] = "extract_gender"
    /\ \E reply \in TaskGenderReplies :
         LET st1 == extract_gender(tasks.st[k], reply)
         IN  tasks' = [tasks EXCEPT
                 !.node[k] = IF check_gender_available(st1) = "gender_found"
                             THEN "route_to_service"
                             ELSE "generate_followup",
                 !.st[k] = st1]
    /\ Frame
    /\ UNCHANGED <<call, feed>>

\* the node route_to_service and its conditional edge
TaskRouteToService(k) ==
    /\ tasks.at[k] = "ainvoke" /\ tasks.node[k] = "route_to_service"
    /\ LET decision == decide_service_route(tasks.st[k])
       IN  tasks' = [tasks EXCEPT
               !.node[k] = IF decision \in DOMAIN RouteMap
                           THEN RouteMap[decision] ELSE "raised"]
    /\ Frame
    /\ UNCHANGED <<call, feed>>

\* the handler node of a Pairing turn
TaskHandlePairing(k) ==
    /\ tasks.at[k] = "ainvoke" /\ tasks.node[k] = "handle_pairing"
    /\ \E out \in TaskPairingOutcomes :
         LET st1 == handle_pairing(tasks.st[k], out)
         IN  tasks' = [tasks EXCEPT
                 !.node[k] = FollowupEdge(check_followup_needed(st1)),
                 !.st[k] = st1]
    /\ Frame
    /\ UNCHANGED <<call, feed>>

\* the handler node of a General turn
TaskHandleGeneral(k) ==
    /\ tasks.at[k] = "ainvoke" /\ tasks.node[k] = "handle_general"
    /\ \E out \in TaskGeneralOutcomes :
         tasks' = [tasks EXCEPT
             !.node[k] = "prepare_response",
             !.st[k] = handle_general(@, out)]
    /\ Frame
    /\ UNCHANGED <<call, feed>>

\* the node generate_followup
TaskGenerateFollowup(k) ==
    /\ tasks.at[k] = "ainvoke" /\ tasks.node[k] = "generate_followup"
    /\ tasks' = [tasks EXCEPT
           !.node[k] = "prepare_response",
           !.st[k] = generate_followup(@)]
    /\ Frame
    /\ UNCHANGED <<call, feed>>

\* the node prepare_response: an exception of the node raises out of the
\* graph
TaskPrepareResponse(k) ==
    /\ tasks.at[k] = "ainvoke" /\ tasks.node[k] = "prepare_response"
    /\ LET r == prepare_response(tasks.st[k])
       IN  tasks' = [tasks EXCEPT
               !.node[k] = IF r.raised THEN "raised" ELSE "process_bot_response",
               !.st[k] = IF r.raised THEN @ ELSE r.value]
    /\ Frame
    /\ UNCHANGED <<call, feed>>

\* the node process_bot_response enters endTurn: the recommendations of the
\* turn, when there are any, are written to the ConversationService of the
\* ChatSession; the node runs in a worker thread and other tasks run
\* between its steps
TaskEndTurn(k) ==
    /\ tasks.at[k] = "ainvoke" /\ tasks.node[k] = "process_bot_response"
    /\ LET o == tasks.session[k]
       IN  tasks' = [tasks EXCEPT
               !.node[k] = "endConvo",
               !.heap[o].conversation = endTurn_recs(@, tasks.st[k].recommendations)]
    /\ Frame
    /\ UNCHANGED <<call, feed>>

\* endConvo: the model call returned and its text is written as the context
\* of the ConversationService; the text is what endConvo returns
TaskEndConvo(k) ==
    /\ tasks.at[k] = "ainvoke" /\ tasks.node[k] = "endConvo"
    /\ \E reply \in TaskBotFolds :
         LET o == tasks.session[k]
             r == endConvo(tasks.heap[o].conversation, reply)
         IN  tasks' = [tasks EXCEPT
                 !.node[k] = "endTurn",
                 !.response[k] = r.context,
                 !.heap[o].conversation = r.cs]
    /\ Frame
    /\ UNCHANGED <<call, feed>>

\* endTurn after endConvo returned: the returned text is written as the
\* context once more
TaskEndTurnStore(k) ==
    /\ tasks.at[k] = "ainvoke" /\ tasks.node[k] = "endTurn"
    /\ LET o == tasks.session[k]
       IN  tasks' = [tasks EXCEPT
               !.node[k] = "endTurn_return",
               !.heap[o].conversation.conversation_context = tasks.response[k]]
    /\ Frame
    /\ UNCHANGED <<call, feed>>

\* endTurn returns the context the ConversationService holds then, and the
\* node process_bot_response stores it in the turn's state
TaskProcessBotResponse(k) ==
    /\ tasks.at[k] = "ainvoke" /\ tasks.node[k] = "endTurn_return"
    /\ LET o == tasks.session[k]
       IN  tasks' = [tasks EXCEPT
               !.node[k] = "END",
               !.response[k] = PyNone,
               !.st[k].conversation_history =
                   tasks.heap[o].conversation.conversation_context]
    /\ Frame
    /\ UNCHANGED <<call, feed>>

\* ainvoke returned or raised: when it returned, process_with_langgraph
\* updates the ChatSession the task holds from the final state
TaskFinishTurn(k) ==
    /\ tasks.at[k] = "ainvoke" /\ tasks.node[k] \in {"END", "raised"}
    /\ LET o == tasks.session[k]
       IN  tasks' = [tasks EXCEPT
               !.at[k] = "receive",
               !.node[k] = "none",
               !.st[k] = NoState,
               !.heap[o].session = IF tasks.node[k] = "END"
                                   THEN UpdateSession(@, tasks.st[k]) ELSE @]
    /\ Frame
    /\ UNCHANGED <<call, feed>>

\* receive_text raises WebSocketDisconnect
TaskDisconnect(k) ==
    /\ tasks.at[k] = "receive"
    /\ tasks' = [tasks EXCEPT
           !.at[k] = "closed",
           !.chat_sessions[tasks.client_id[k]] = NoObject,
           !.session[k] = NoObject,
           !.client_id[k] = PyNone]
    /\ Frame
    /\ UNCHANGED <<call, feed>>

\* the handling of a message raises another exception
TaskRaise(k) ==
    /\ tasks.at[k] = "receive"
    /\ tasks' = [tasks EXCEPT
           !.at[k] = "closed",
           !.session[k] = NoObject,
           !.client_id[k] = PyNone]
    /\ Frame
    /\ UNCHANGED <<call, feed>>

NextTasks ==
    \/ \E k \in Connections, c \in ClientIds : TaskConnect(k, c)
    \/ \E k \in Connections : TaskStartTurn(k)
    \/ \E k \in Connections : TaskAddToConversation(k)
    \/ \E k \in Connections : TaskUnderstandIntent(k)
    \/ \E k \in Connections : TaskExtractGender(k)
    \/ \E k \in Connections : TaskRouteToService(k)
    \/ \E k \in Connections : TaskHandlePairing(k)
    \/ \E k \in Connections : TaskHandleGeneral(k)
    \/ \E k \in Connections : TaskGenerateFollowup(k)
    \/ \E k \in Connections : TaskPrepareResponse(k)
    \/ \E k \in Connections : TaskEndTurn(k)
    \/ \E k \in Connections : TaskEndConvo(k)
    \/ \E k \in Connections : TaskEndTurnStore(k)
    \/ \E k \in Connections : TaskProcessBotResponse(k)
    \/ \E k \in Connections : TaskFinishTurn(k)
    \/ \E k \in Connections : TaskDisconnect(k)
    \/ \E k \in Connections : TaskRaise(k)

SpecTasks == Init /\ [][NextTasks]_vars

(***************************************************************************)
(* The message ids of one session and the feedback recorded against them.  *)
(***************************************************************************)
\* f"bot_{len(conversation_history[client_id])}" with an optional suffix
message_id(history, suffix) == [n |-> Len(history), suffix |-> suffix]

\* the ids a feedback message can name
FeedbackIds == {[n |-> n, suffix |-> x] : n \in 0..1, x \in {"", "_followup"}}

\* the entry process_user_input_new appends to conversation_history
HistoryEntry(user_input, id) == [user_input |-> user_input, bot_message_id |-> id]

\* a text message handed to handle_user_input_with_state
FeedText ==
    /\ Len(feed.rated) < MaxRated
    /\ \E m \in MessageTexts \ {"", "  "}, bots \in 0..1 :
         LET user_input == strip(m)
             h == handle_user_input_with_state(feed.ui, user_input)
             id == message_id(feed.history, "")
         IN  feed' =
               IF h.do = "handle_service_selection"
               THEN [feed EXCEPT !.ui = h.state, !.rated = Append(@, id),
                                 !.last = "selection"]
               ELSE IF h.do = "show_main_menu"
               THEN [feed EXCEPT !.ui = h.state, !.last = "menu"]
               ELSE IF KeywordCallBinds(process_with_langgraph_params,
                                        process_with_langgraph_required,
                                        process_user_input_new_keywords)
               THEN [feed EXCEPT !.ui = h.state,
                                 !.rated = IF bots = 1 THEN Append(@, id) ELSE @,
                                 !.history = Append(@, HistoryEntry(user_input, id)),
                                 !.last = "text"]
               ELSE [feed EXCEPT !.ui = h.state, !.last = "text_error"]
    /\ Frame
    /\ UNCHANGED <<call, tasks>>

\* a service_button message: of the two bot messages of
\* handle_service_button_click the second carries show_feedback
FeedServiceButton ==
    /\ Len(feed.rated) < MaxRated
    /\ \E key \in ButtonKeys :
         feed' = IF key \in ServiceKeys
                 THEN [feed EXCEPT !.ui = "chat",
                                   !.rated = Append(@, message_id(feed.history, "_followup")),
                                   !.last = "service_button"]
                 ELSE [feed EXCEPT !.last = "service_button"]
    /\ Frame
    /\ UNCHANGED <<call, tasks>>

\* a followup_response message: every bot message of the list the workflow
\* returned is sent with show_feedback; the branch appends nothing to
\* conversation_history
FeedFollowup ==
    /\ Len(feed.rated) < MaxRated
    /\ \E bots \in 0..1 :
         feed' = [feed EXCEPT
                     !.rated = IF bots = 1
                               THEN Append(@, message_id(feed.history, ""))
                               ELSE @,
                     !.last = "followup_response"]
    /\ Frame
    /\ UNCHANGED <<call, tasks>>

\* a feedback message: the first entry of conversation_history with the
\* message id is saved
FeedFeedback ==
    /\ \E id \in FeedbackIds :
         LET found == {k \in 1..Len(feed.history) : feed.history[k].bot_message_id = id}
         IN  feed' = IF found = {}
                     THEN [feed EXCEPT !.last = "feedback"]
                     ELSE [feed EXCEPT
                              !.saved = Append(@, feed.history[
                                  CHOOSE k \in found : \A j \in found : k <= j]),
                              !.last = "feedback"]
    /\ Frame
    /\ UNCHANGED <<call, tasks>>

NextFeed ==
    \/ FeedText
    \/ FeedServiceButton
    \/ FeedFollowup
    \/ FeedFeedback

SpecFeed == Init /\ [][NextFeed]_vars

(***************************************************************************)
(* Properties.                                                             *)
(***************************************************************************)
Nodes(t) == {t[k] : k \in 1..Len(t)}
Times(t, node) == Cardinality({k \in 1..Len(t) : t[k] = node})
TypesOf(messages) == {messages[k].type : k \in 1..Len(messages)}

\* a turn has run to its end and no later message was received yet
TurnEnded == pc = "idle" /\ runs = 1

GenderGated == {"handle_occasion", "handle_pairing", "handle_vacation"}

\* C1: the Occasion, Pairing and Vacation handlers are entered only in a turn
\* whose gender slot, lowercased, is male, female, unisex or not_needed when
\* the gate after extract_gender is evaluated (the slot is not written after
\* the gate), whether or not extract_gender failed.
C1_GenderGate ==
    (pc \in GenderGated \/ Nodes(trace) \cap GenderGated # {})
        => /\ Truthy(st.user_info.gender)
           /\ lower(st.user_info.gender) \in AcceptedGenders

\* C1 witness: a gated handler is entered in a turn whose extract_gender failed
C1_Witness ==
    /\ pc \in GenderGated
    /\ st.error_message = "Error extracting gender"

\* C2: a non-empty free text that is no menu command and no service number
\* causes exactly one run of the workflow, and the list that run produced is
\* what is sent.
C2_FreeTextRunsWorkflow ==
    (/\ pc = "idle"
     /\ inbound.kind = "text"
     /\ inbound.text # ""
     /\ lower(inbound.text) \notin MenuCommands
     /\ inbound.text \notin ServiceKeys)
        => /\ runs = 1
           /\ sent = <<UserEcho(inbound.text), Typing>> \o WireList(st.websocket_messages)

\* C3: whenever route_to_service is reached, the service mode it routes on is
\* one of occasion, pairing, vacation, general, styling.
C3_RouteTotal ==
    pc = "route_to_service" => st.service_mode \in DOMAIN RouteMap

\* C4: an outbound list built in a turn with a recorded error holds an error
\* message and no follow-up form, gender prompt, bot message or
\* recommendations, whatever follow_up_needed and is_gender_loop are.
C4_ErrorPreempts ==
    (Truthy(st.error_message) /\ st.websocket_messages # <<>>)
        => /\ "error" \in TypesOf(st.websocket_messages)
           /\ TypesOf(st.websocket_messages)
                  \cap {"followup", "bot_message", "recommendations"} = {}

\* C4 witness: a list built with an error, a follow-up and the gender loop
C4_Witness ==
    /\ Truthy(st.error_message)
    /\ st.websocket_messages # <<>>
    /\ st.follow_up_needed
    /\ st.is_gender_loop

\* C5: at the end of every turn, and when a later turn reads it, the
\* conversation context is a non-empty string.
C5_ContextNonEmpty ==
    /\ TurnEnded => conv.conversation_context # ""
    /\ (pc = "process_conversation" /\ turns > 1) => st.conversation_history # ""

\* C6: when the external call of addToConversation or endConvo fails, the
\* operation returns the prior context and the stored context keeps it.
C6_FoldFailStatic ==
    (/\ call.fn \in {"addToConversation", "endConvo"}
     /\ call.done
     /\ call.reply.raised)
        => /\ call.returned = call.cs.conversation_context
           /\ call.stored = call.cs.conversation_context

\* C7: for every raw reply that is not a JSON object with the intent and
\* reasoning fields, understandIntent returns General without raising.
C7_UnparseableIsGeneral ==
    (/\ call.fn = "understandIntent"
     /\ call.done
     /\ RawClass(call.reply) # "well_formed")
        => call.result = Return("General")

\* C8: when a handler's service call raises, the handler records its error,
\* the recommendation list of the turn stays empty, the workflow goes on to
\* prepare_response and no exception leaves the workflow.
C8_HandlerCatches ==
    handler_call = "raised"
        => /\ st.error_message \in HandlerErrors
           /\ st.recommendations = PyList(<<>>)
           /\ pc \in {"generate_followup", "prepare_response",
                      "process_bot_response", "END", "idle"}
           /\ pc \in {"process_bot_response", "END", "idle"}
                  => "prepare_response" \in Nodes(trace)

\* C8 witness: a turn whose handler's service call raised has run to its end
C8_Witness ==
    /\ handler_call = "raised"
    /\ TurnEnded
    /\ "error" \in TypesOf(st.websocket_messages)

\* C9: no error raised while handling an inbound message ends the session:
\* the receive loop still runs and the session is still registered.
C9_ErrorsKeepSession ==
    (inbound.kind \in {"bad_json", "bad_image", "followup_bad_shape"}
        \/ (TurnEnded /\ "error" \in TypesOf(sent)))
        => conn = "open" /\ Client \in chat_sessions

\* C10: in every turn process_bot_response runs exactly once, after
\* prepare_response and before the turn ends, and its context is written
\* back into the session.
C10_BotFoldAlwaysRuns ==
    TurnEnded
        => /\ Times(trace, "process_bot_response") = 1
           /\ Len(trace) >= 2
           /\ trace[Len(trace)] = "process_bot_response"
           /\ trace[Len(trace) - 1] = "prepare_response"
           /\ session.conversation_history = st.conversation_history

\* the gender gate of the turn took its gender_missing edge
GateFoundMissing ==
    /\ "generate_followup" \in Nodes(trace)
    /\ "route_to_service" \notin Nodes(trace)

MessageTypesOf(messages) ==
    {messages[k].message_type :
        k \in {j \in 1..Len(messages) : "message_type" \in DOMAIN messages[j]}}

\* C11: in a turn whose gender gate found gender missing and that recorded no
\* error, the outbound list holds the gender prompt (a bot message with
\* message_type gender_question) and no follow-up form.
C11_GenderPromptEmitted ==
    (/\ GateFoundMissing
     /\ ~Truthy(st.error_message)
     /\ st.websocket_messages # <<>>)
        => /\ "gender_question" \in MessageTypesOf(st.websocket_messages)
           /\ "followup" \notin TypesOf(st.websocket_messages)

\* the questions of the follow-up forms of a list
QuestionsAsked(messages) ==
    {messages[k].questions : k \in {j \in 1..Len(messages) : messages[j].type = "followup"}}

\* C12: in a turn whose gender gate found gender missing, the outbound list
\* holds no recommendations and no recommendation bot message, and the only
\* question it asks is the single gender question, also for the styling
\* intent with style slots missing.
C12_OnlyGenderQuestion ==
    (GateFoundMissing /\ st.websocket_messages # <<>>)
        => /\ "recommendations" \notin TypesOf(st.websocket_messages)
           /\ \A k \in 1..Len(st.websocket_messages) :
                  st.websocket_messages[k].type = "bot_message"
                      => st.websocket_messages[k].message_type # "recommendation_intro"
           /\ QuestionsAsked(st.websocket_messages) \subseteq {<<questions("gender")>>}

\* C12 witness: a styling turn with no style slot filled asks the gender
\* question alone
C12_Witness ==
    /\ GateFoundMissing
    /\ st.service_mode = "styling"
    /\ \A f \in StyleKeys : ~Truthy(st.user_info[f])
    /\ QuestionsAsked(st.websocket_messages) = {<<questions("gender")>>}

\* the recommendations messages of a list
RecommendationMessages(messages) ==
    {messages[k] : k \in {j \in 1..Len(messages) : messages[j].type = "recommendations"}}

\* C13: every recommendations message of a built list holds at most 7 items,
\* numbered 1..n, in the order the handler returned the products, whatever
\* the number of products the handler returned.
C13_AtMostSeven ==
    (call.fn = "prepare_response" /\ call.done /\ ~call.result.raised)
        => \A m \in RecommendationMessages(call.result.value.websocket_messages) :
               /\ Len(m.recommendations) <= 7
               /\ Len(m.recommendations) <= Len(call.st.recommendations.items)
               /\ \A i \in 1..Len(m.recommendations) :
                      /\ m.recommendations[i].id = i
                      /\ m.recommendations[i].product_id =
                             call.st.recommendations.items[i].product_id

\* C13 witness: a handler returned more than 7 products and the message
\* holds 7 of them
C13_Witness ==
    /\ call.fn = "prepare_response" /\ call.done /\ ~call.result.raised
    /\ Len(call.st.recommendations.items) > 7
    /\ \E m \in RecommendationMessages(call.result.value.websocket_messages) :
           Len(m.recommendations) = 7

\* a slot of a slot store holds a value
SlotSet(user_info, k) ==
    /\ Truthy(user_info[k])
    /\ k = "gender" => lower(user_info[k]) \in AcceptedGenders

\* C14: a slot value set in a turn that ran to its end and updated the
\* session is still in the slot store at the start of the next turn, unless
\* the input of that turn gives a value for the slot.
C14_SlotsPersist ==
    [][(/\ TurnEnded
        /\ session.conversation_history = st.conversation_history
        /\ "process_bot_response" \in Nodes(trace)
        /\ pc' = "process_conversation")
          => \A k \in SlotKeys : SlotSet(st.user_info, k) => st'.user_info[k] # PyNone]_vars

\* calls made in the turn so far: _process_conversation calls processTurn,
\* which calls addToConversation once and understandIntent once
UserFoldCalls == Times(trace, "process_conversation")
ClassifierCalls == Times(trace, "process_conversation")

Handlers == {RouteMap[k] : k \in DOMAIN RouteMap}

\* C15: the turn of a follow-up form submission calls neither the intent
\* classifier nor the user-turn fold, and the handler it runs is the one of
\* the intent the session had pending.
C15_FollowupIsDirect ==
    (caller = "followup" /\ runs = 1)
        => /\ ClassifierCalls = 0
           /\ UserFoldCalls = 0
           /\ pc \in Handlers
                  => /\ session.service_mode \in DOMAIN RouteMap
                     /\ pc = RouteMap[session.service_mode]

\* C16: when a follow-up submission supplies gender Male or Female, the
\* gender gate of that turn sees the submitted value in the slot store and
\* takes the gender_found edge.
C16_SubmittedGenderPasses ==
    [][(/\ pc = "extract_gender"
        /\ caller = "followup"
        /\ st.user_info.gender \in {GenderOptions[1], GenderOptions[2]})
          => /\ st'.user_info.gender = st.user_info.gender
             /\ pc' = "route_to_service"]_vars

\* the style slots of the turn that hold a value
FilledStyleSlots == {f \in StyleKeys : Truthy(st.user_info[f])}

\* the Styling handler is the node the turn ran last
AfterStyling == trace # <<>> /\ trace[Len(trace)] = "handle_styling"

\* C17: after the Styling handler the workflow goes to generate_followup
\* exactly when fewer than 2 of the five style slots are filled (gender is
\* not counted), and to prepare_response otherwise.
C17_StyleFollowupDecision ==
    AfterStyling
        => /\ pc = "generate_followup" <=> Cardinality(FilledStyleSlots) < 2
           /\ pc = "prepare_response" <=> Cardinality(FilledStyleSlots) >= 2

\* C17 witness: Styling ran with gender and one style slot filled and the
\* decision is followup
C17_Witness ==
    /\ AfterStyling
    /\ Truthy(st.user_info.gender)
    /\ Cardinality(FilledStyleSlots) = 1
    /\ pc = "generate_followup"

\* the limit the comment of the loop of _generate_followup states
StyleQuestionLimit == 3

\* C18: a styling follow-up holds at most 3 questions, whatever the number
\* of unfilled style slots.
C18_StyleQuestionsCapped ==
    (/\ st.service_mode = "styling"
     /\ "generate_followup" \in Nodes(trace)
     /\ st.follow_up_needed
     /\ ~st.is_gender_loop)
        => Len(st.follow_up_message) <= StyleQuestionLimit

\* C19: when gender is resolved and the service calls of the handler return
\* well-formed results, the handler records no error, the workflow does not
\* raise, and the list of a turn without error holds a bot message and no
\* error message.
C19_HandlersSucceed ==
    (Nodes(trace) \cap Handlers # {} /\ handler_call = "returned")
        => /\ st.error_message \notin HandlerErrors
           /\ pc # "raised"
           /\ (~Truthy(st.error_message) /\ st.websocket_messages # <<>>)
                  => /\ "bot_message" \in TypesOf(st.websocket_messages)
                     /\ "error" \notin TypesOf(st.websocket_messages)

\* the list process_with_langgraph returned to the follow-up branch, as sent
ReturnedList == sent

\* C20: the outbound list process_with_langgraph returns for a turn starts
\* with an intent notice, also when the turn ends in an error.
C20_IntentNoticeFirst ==
    (TurnEnded /\ caller = "followup")
        => /\ ReturnedList # <<>>
           /\ ReturnedList[1].type = "intent"

\* the positions of a list that hold a message of a type
Positions(messages, type) == {k \in 1..Len(messages) : messages[k].type = type}

\* C21: a list built by prepare_response holds the intent notice and then
\* exactly one of an error message, a follow-up form, a gender prompt or a
\* normal bot message; it never holds two follow-up forms, and a
\* recommendations message comes only directly after a normal bot message
\* and only when the recommendation list is not empty.
C21_OneBodyMessage ==
    (call.fn = "prepare_response" /\ call.done /\ ~call.result.raised)
        => LET m == call.result.value.websocket_messages
           IN  /\ Len(m) \in {2, 3}
               /\ m[1].type = "intent"
               /\ m[2].type \in {"error", "followup", "bot_message"}
               /\ Cardinality(Positions(m, "followup")) <= 1
               /\ Cardinality(Positions(m, "error") \cup Positions(m, "followup")
                                  \cup Positions(m, "bot_message")) = 1
               /\ Len(m) = 3
                      => /\ m[3].type = "recommendations"
                         /\ m[2].type = "bot_message"
                         /\ m[2].message_type = "recommendation_intro"
                         /\ call.st.recommendations.items # <<>>

\* C21 witness: a list with a normal bot message followed by recommendations
C21_Witness ==
    /\ call.fn = "prepare_response" /\ call.done /\ ~call.result.raised
    /\ Len(call.result.value.websocket_messages) = 3
    /\ call.result.value.websocket_messages[3].type = "recommendations"

\* C22: when a stage of the turn raises, here the external call of the
\* bot-turn fold, the outbound list of the turn holds an error message.
C22_RaisedStageSurfaces ==
    (call.fn = "process_bot_response" /\ call.done /\ call.reply.raised)
        => "error" \in TypesOf(call.result.websocket_messages)

\* the edges of the state graph (add_edge and add_conditional_edges)
GraphEdges ==
    {<<"process_conversation", "extract_gender">>,
     <<"extract_gender", "route_to_service">>,
     <<"extract_gender", "generate_followup">>,
     <<"handle_general", "prepare_response">>,
     <<"generate_followup", "prepare_response">>,
     <<"prepare_response", "process_bot_response">>,
     <<"process_bot_response", "END">>}
        \cup {<<"route_to_service", h>> : h \in Handlers}
        \cup {<<h, n>> : h \in Handlers \ {"handle_general"},
                         n \in {"generate_followup", "prepare_response"}}

\* the nodes run so far follow the edges of the graph from its entry point,
\* and none was run twice
TraceFollowsGraph ==
    /\ trace # <<>> => trace[1] = "process_conversation"
    /\ \A k \in 1..(Len(trace) - 1) : <<trace[k], trace[k + 1]>> \in GraphEdges
    /\ Cardinality(Nodes(trace)) = Len(trace)
    /\ (trace # <<>> /\ pc \notin {"idle", "raised"})
           => <<trace[Len(trace)], pc>> \in GraphEdges

\* C23: every turn started on the workflow terminates when each external
\* call returns or raises; the nodes are run in an order the state graph
\* allows, none twice, and the caller receives a non-empty outbound list.
C23_TurnsTerminate ==
    /\ [](TraceFollowsGraph)
    /\ (pc # "idle") ~> (TurnEnded /\ sent # <<>>)

\* C23 witness: a turn has run the longest path of the graph to its end
C23_Witness ==
    /\ TurnEnded
    /\ sent # <<>>
    /\ trace = <<"process_conversation", "extract_gender", "route_to_service",
                 "handle_styling", "generate_followup", "prepare_response",
                 "process_bot_response">>

\* the connections whose workflow invocation on a ChatSession is in flight
InFlight(o) == {k \in Connections : tasks.at[k] = "ainvoke" /\ tasks.session[k] = o}

\* C24: there are never two workflow invocations in flight on one
\* ChatSession, also when two connections are open with the same client id.
C24_OneTurnInFlight ==
    \A o \in 1..MaxObjects : Cardinality(InFlight(o)) <= 1

\* the ChatSession objects of a client id: the registered one and those the
\* open connections of that id hold
ObjectsOf(c) ==
    ({tasks.chat_sessions[c]}
        \cup {tasks.session[k] : k \in {j \in Connections : tasks.client_id[j] = c}})
        \ {NoObject}

\* the client ids of the connections that take the step
Actors ==
    {tasks.client_id[k] : k \in {j \in Connections : tasks'.at[j] # tasks.at[j]
                                                     \/ tasks'.node[j] # tasks.node[j]}}
        \cup {tasks'.client_id[k] : k \in {j \in Connections : tasks'.at[j] # tasks.at[j]}}

\* C25: a step of a connection of one client id leaves the registry entry
\* and the conversation state (context, intent, slots, parameters, last
\* recommendations) of the sessions of every other client id unchanged,
\* whatever the interleaving of the connections.
C25_SessionsIsolated ==
    [][\A c \in ClientIds :
          c \notin Actors
              => /\ tasks'.chat_sessions[c] = tasks.chat_sessions[c]
                 /\ \A o \in ObjectsOf(c) : tasks'.heap[o] = tasks.heap[o]]_vars

\* C25 witness: two client ids are registered with ChatSessions of their
\* own; client_1 has finished a General turn and a Pairing turn of client_2
\* is in flight inside endTurn, its context written and not yet returned
C25_Witness ==
    /\ \A c \in ClientIds : tasks.chat_sessions[c] # NoObject
    /\ tasks.chat_sessions["client_1"] # tasks.chat_sessions["client_2"]
    /\ tasks.heap[tasks.chat_sessions["client_1"]].session.service_mode = "general"
    /\ \E k \in Connections :
           /\ tasks.at[k] = "ainvoke" /\ tasks.client_id[k] = "client_2"
           /\ tasks.node[k] = "endTurn_return"
           /\ tasks.session[k] = tasks.chat_sessions["client_2"]
           /\ tasks.heap[tasks.session[k]].conversation.intent = "Pairing"
           /\ tasks.heap[tasks.session[k]].conversation.conversation_context
                  = tasks.response[k]

\* C26: whenever the connection of a client id has ended, whether by a
\* disconnect or by an exception in the receive loop, the registry holds no
\* ChatSession for that id.
C26_EndedConnectionRemoved ==
    conn = "closed" => Client \notin chat_sessions

\* C27: a turn classified General whose conversation processing and gender
\* extraction did not fail never goes to the gender follow-up: the General
\* handler runs whatever the gender slot holds.
C27_GeneralSkipsGate ==
    (/\ st.service_mode = "general"
     /\ st.error_message = PyNone
     /\ "extract_gender" \in Nodes(trace))
        => /\ pc # "generate_followup"
           /\ "generate_followup" \notin Nodes(trace)

\* the products a returned respond result carries
ReturnedProducts(result) ==
    IF result.value.prods.kind = "list" THEN result.value.prods.items ELSE <<>>

\* C28: GeneralService.respond returns products only when respond_text set
\* the recommendation flag; with the flag set and an empty search the
\* returned text is what noRecs made of the dialogue and there are no
\* products; with the flag clear the result is the dialogue unchanged and
\* None for the products, whatever the catalogue search would have answered
\* (it is not made).
C28_RespondFollowsFlag ==
    (call.fn = "respond" /\ call.done /\ ~call.text.raised)
        => LET flag == call.text.value.recommendation
               dialogue == call.text.value.dialogue
           IN  /\ ~flag => call.result = Return([dialogue |-> dialogue,
                                                 prods |-> PyNoneList])
               /\ (flag /\ ~call.result.raised /\ call.search.value = <<>>)
                      => /\ call.result.value.dialogue = call.apology.value
                         /\ ReturnedProducts(call.result) = <<>>
               /\ (flag /\ ~call.result.raised /\ call.search.value # <<>>)
                      => /\ call.result.value.dialogue = dialogue
                         /\ ReturnedProducts(call.result) = call.search.value
               /\ (~call.result.raised /\ ReturnedProducts(call.result) # <<>>)
                      => flag

\* C28 witness: the flag is clear and the catalogue search would have found
\* a product; respond returned
C28_Witness ==
    /\ call.fn = "respond" /\ call.done
    /\ ~call.text.raised /\ ~call.text.value.recommendation
    /\ ~call.search.raised /\ call.search.value # <<>>
    /\ ~call.result.raised

\* the parameters of a group that are not null in a parameters dict
NonNull(parameters, group) ==
    {param \in DOMAIN parameters[group] : parameters[group][param] # PyNone}

\* C29: every occasion parameter that is non-null in the parameters handed
\* to extract_parameters is non-null in what it returns, whether the
\* extraction parsed, came back empty, or fell back to keyword detection.
C29_PriorValuesKept ==
    (call.fn = "extract_parameters" /\ call.done /\ call.parameters.kind = "dict")
        => \A group \in {"core_parameters", "inferred_parameters"} :
               NonNull(call.parameters, group) \subseteq NonNull(call.result, group)

\* the text of the two-key dict get_vacation_recommendation returns when it
\* has no destination
PlaceRequest == "Please mention a specific place like 'Goa', 'Kerala', 'Thailand', etc."

\* C30: a vacation turn whose destination extraction gives "unknown", an
\* empty text or None is built into an outbound list without an exception;
\* the list holds a bot message that asks for a place name and no
\* recommendations.
C30_UnknownDestinationAsksPlace ==
    (/\ call.fn = "handle_vacation" /\ call.done
     /\ call.destination \in {"unknown", "", PyNone})
        => /\ ~call.result.raised
           /\ LET messages == call.result.value.websocket_messages
              IN  /\ \E k \in 1..Len(messages) :
                         /\ messages[k].type = "bot_message"
                         /\ messages[k].message = PlaceRequest
                  /\ Positions(messages, "recommendations") = {}

\* C31: when get_vacation_recommendation returns its per-location result,
\* whatever the number of locations, the Vacation handler records no error
\* and leaves one dialogue text in response_message and one list of at most
\* five products in recommendations.
C31_VacationOnePair ==
    (/\ call.fn = "handle_vacation" /\ call.done
     /\ ~call.out.raised /\ call.out.value.shape = "locations")
        => /\ ~Truthy(call.handled.error_message)
           /\ call.handled.response_message # "location_entry"
           /\ call.handled.recommendations.kind = "list"
           /\ Len(call.handled.recommendations.items) <= 5

\* the concatenation of a sequence of lists
RECURSIVE Flatten(_)
Flatten(lists) == IF lists = <<>> THEN <<>> ELSE Head(lists) \o Flatten(Tail(lists))

\* C32: the list get_complements returns is made, in the order of the
\* requested subcategories, of one run of products per request, a
\* subcategory requested twice giving two runs; every
\* product of a run is a catalogue product of that subcategory that shares
\* two tags or more with the tag set, and within a run the number of shared
\* tags never increases.
C32_ComplementsOverlapRanked ==
    (call.fn = "get_complements" /\ call.done)
        => /\ call.result = Flatten(call.segments)
           /\ \A k \in 1..Len(call.segments) :
                  LET run == call.segments[k]
                      subcat == call.sub_categories[k]
                  IN  /\ \A i \in 1..Len(run) :
                             /\ Cardinality(run[i].tags) >= 2
                             /\ subcat \in DOMAIN Catalogue
                             /\ \E j \in 1..Len(Catalogue[subcat]) :
                                    /\ Catalogue[subcat][j].product_id = run[i].product_id
                                    /\ run[i].tags = Catalogue[subcat][j].tags \cap call.tags
                      /\ \A i \in 1..(Len(run) - 1) :
                             Cardinality(run[i].tags) >= Cardinality(run[i + 1].tags)

\* C32 witness: the same subcategory was requested twice and each request
\* gave a run that starts with three shared tags and goes on with two, so
\* that the second run starts above the end of the first
C32_Witness ==
    /\ call.fn = "get_complements" /\ call.done
    /\ Len(call.segments) = 2
    /\ call.sub_categories[1] = call.sub_categories[2]
    /\ \A k \in 1..2 :
           /\ Len(call.segments[k]) >= 2
           /\ Cardinality(call.segments[k][1].tags) = 3
           /\ Cardinality(call.segments[k][Len(call.segments[k])].tags) = 2
    /\ call.result = call.segments[1] \o call.segments[2]

\* the products of the list get_complements returned that are catalogue
\* products of one subcategory, in the order of the list
ReturnedOf(subcat) ==
    SelectSeq(call.result,
              LAMBDA p : \E j \in 1..Len(Catalogue[subcat]) :
                             Catalogue[subcat][j].product_id = p.product_id)

\* C32 as the specification states it: every product get_complements returns
\* shares two tags or more with the tag set and comes from a requested
\* subcategory, and within each subcategory the products appear in the
\* returned list in an order in which the number of shared tags never
\* increases.
C32_RankedWithinSubcategory ==
    (call.fn = "get_complements" /\ call.done)
        => /\ \A i \in 1..Len(call.result) :
                  /\ Cardinality(call.result[i].tags) >= 2
                  /\ \E k \in 1..Len(call.sub_categories) :
                         /\ call.sub_categories[k] \in DOMAIN Catalogue
                         /\ \E j \in 1..Len(Catalogue[call.sub_categories[k]]) :
                                Catalogue[call.sub_categories[k]][j].product_id
                                    = call.result[i].product_id
           /\ \A subcat \in DOMAIN Catalogue :
                  LET returned == ReturnedOf(subcat)
                  IN  \A i \in 1..(Len(returned) - 1) :
                          Cardinality(returned[i].tags) >= Cardinality(returned[i + 1].tags)

\* C33: when the Styling handler is about to run in a turn that follows a
\* turn which ended with a non-empty product list, the recommendations it
\* hands to the styling service (the recommendations of the turn state) are
\* that list.
C33_StylingSeesLastRecs ==
    (/\ pc = "handle_styling"
     /\ session.current_recommendations.kind = "list"
     /\ session.current_recommendations.items # <<>>)
        => st.recommendations = session.current_recommendations

\* a reply that does not parse into the expected structure: no JSON object,
\* JSON that does not decode, or an object without the required keys
Unparseable(reply) ==
    \/ ~reply.braces
    \/ reply.decode = "broken"
    \/ reply.decode = "ok" /\ ~(TopLevelKeys \subseteq reply.keys)

\* C35: when the reply to the extraction prompt does not parse into the
\* expected structure, extract_parameters returns what the keyword fallback
\* makes of the user input.
C35_UnparseableFallsBack ==
    (/\ call.fn = "extract_parameters" /\ call.done
     /\ ~call.out.raised /\ Unparseable(call.out.value))
        => call.result = keyword_fallback(call.user_input)

\* the errors _process_conversation and _extract_gender record
EarlyErrors == {"Error processing conversation", "Error extracting gender"}

\* C36: in a turn in which process_conversation or extract_gender recorded
\* an error no strategy handler is entered.
C36_EarlyErrorSkipsHandlers ==
    (st.error_message \in EarlyErrors)
        => /\ pc \notin Handlers
           /\ Nodes(trace) \cap Handlers = {}

\* C37: when the gate after extract_gender is evaluated on a gender slot
\* that holds one of the options of the gender question, it takes
\* gender_found and the turn goes on to route_to_service.
C37_OfferedOptionsPass ==
    (/\ trace # <<>> /\ trace[Len(trace)] = "extract_gender"
     /\ \E k \in 1..Len(GenderOptions) : st.user_info.gender = GenderOptions[k])
        => /\ check_gender_available(st) = "gender_found"
           /\ pc = "route_to_service"

\* C38: when the workflow invocation of a turn ends with an exception, the
\* ChatSession fields and the context, intent and recommendations of the
\* conversation service are what they were before the turn; stated for the
\* first turn of a server run, before which both hold their initial values.
C38_RaisedTurnChangesNothing ==
    (turns = 1 /\ pc = "raised")
        => /\ session = ChatSessionInit
           /\ conv = ConversationServiceInit

\* C39: within a session no two bot messages sent with show_feedback carry
\* the same message_id, and every saved feedback is the recorded turn with
\* the rated id.
C39_RatedIdsUnique ==
    /\ \A i, j \in 1..Len(feed.rated) :
           i # j => feed.rated[i] # feed.rated[j]
    /\ \A k \in 1..Len(feed.saved) :
           \E j \in 1..Len(feed.history) : feed.history[j] = feed.saved[k]

\* C40: the UI state is always menu or chat; of a non-empty text, a menu
\* command in either state sets the state to menu without running the
\* workflow, "1".."4" in menu state is a service selection, and any other
\* text (among them "1".."4" in chat state) sets the state to chat and runs
\* the workflow once.
C40_TextDispatch ==
    [][(ReceiveText /\ inbound'.text # "")
          => /\ user_states' \in {"menu", "chat"}
             /\ IF lower(inbound'.text) \in MenuCommands
                THEN user_states' = "menu" /\ runs' = 0
                ELSE IF user_states = "menu" /\ inbound'.text \in ServiceKeys
                THEN /\ user_states' = "chat" /\ runs' = 0
                     /\ sent' = <<UserEcho(inbound'.text),
                                  SelectionMessage(inbound'.text)>>
                ELSE user_states' = "chat" /\ runs' = 1]_vars
====
